---- MODULE Spec2Model ----
(***************************************************************************)
(* A model of the JSON-RPC 2.0 library in include/jsonrpc.hpp: the value   *)
(* tree, the validators and builders, the dispatcher, and the endpoint.    *)
(***************************************************************************)
EXTENDS Integers, Sequences, FiniteSets, TLC

\* ------------------------------------------------------------------------
\* Bounds of the model
\* ------------------------------------------------------------------------
MaxBatch == 2
MaxSends == 2

\* ------------------------------------------------------------------------
\* The value tree (nlohmann::json).  Every case has its own payload field,
\* so values of different cases are records over different field sets.
\* ------------------------------------------------------------------------
JNull == [t |-> "null"]
JBool(x) == [t |-> "bool", b |-> x]
JInt(x) == [t |-> "int", n |-> x]
JStr(x) == [t |-> "str", s |-> x]
JArr(x) == [t |-> "arr", a |-> x]
JObj(x) == [t |-> "obj", o |-> x]

\* The object with no members.
NoMembers == [k \in {} |-> JNull]

is_null(j) == j.t = "null"
is_string(j) == j.t = "str"
is_number_integer(j) == j.t = "int"
is_array(j) == j.t = "arr"
is_object(j) == j.t = "obj"

\* json::contains(key): false for every value that is not an object.
contains(j, k) == is_object(j) /\ k \in DOMAIN j.o

\* json::empty(): null is empty, an array or object is empty when it has no
\* elements, every other value is not empty.
json_empty(j) ==
  CASE j.t = "null" -> TRUE
    [] j.t = "arr" -> Len(j.a) = 0
    [] j.t = "obj" -> DOMAIN j.o = {}
    [] OTHER -> FALSE

\* json::value(key, "") on an object: the default when the key is absent, the
\* member when it is a string, and a json::type_error (302) when the member
\* is present with another type.
json_value_str(j, k) ==
  IF k \notin DOMAIN j.o THEN [threw |-> FALSE, s |-> ""]
  ELSE IF is_string(j.o[k]) THEN [threw |-> FALSE, s |-> j.o[k].s]
  ELSE [threw |-> TRUE, s |-> ""]

\* json::dump() of the scalar values the model uses as ids.
dump(j) ==
  CASE j.t = "null" -> "null"
    [] j.t = "bool" -> IF j.b THEN "true" ELSE "false"
    [] j.t = "int" -> ToString(j.n)
    [] j.t = "str" -> "\"" \o j.s \o "\""

\* ------------------------------------------------------------------------
\* Error objects and the standard errors
\* ------------------------------------------------------------------------
Err(c, m, d) == [code |-> c, message |-> m, data |-> d]

\* make_error_object that never copies data.
make_error_object_no_data(e) ==
  JObj([code |-> JInt(e.code), message |-> JStr(e.message)])

make_error_object(e) ==
  JObj(IF is_null(e.data)
       THEN [code |-> JInt(e.code), message |-> JStr(e.message)]
       ELSE [code |-> JInt(e.code), message |-> JStr(e.message), data |-> e.data])

\* invalid_request carrying the code of parse_error.
invalid_request_wrong_code == Err(-32700, "Invalid Request", JNull)
invalid_request == Err(-32600, "Invalid Request", JNull)
\* method_not_found carrying the code of invalid_request.
method_not_found_wrong_code == Err(-32600, "Method not found", JNull)
method_not_found == Err(-32601, "Method not found", JNull)
invalid_params == Err(-32602, "Invalid params", JNull)
internal_error == Err(-32603, "Internal error", JNull)
request_cancelled == Err(-32800, "Request cancelled", JNull)

\* ------------------------------------------------------------------------
\* Classifiers and validators
\* ------------------------------------------------------------------------
valid_id_type(id) == is_null(id) \/ is_string(id) \/ is_number_integer(id)

\* is_response: "no" / "yes", or "throw" when json::value raises.
is_response(j) ==
  IF ~is_object(j) THEN "no"
  ELSE LET v == json_value_str(j, "jsonrpc") IN
       IF v.threw THEN "throw"
       ELSE IF v.s = "2.0" /\ contains(j, "id")
               /\ (contains(j, "result") # contains(j, "error"))
            THEN "yes" ELSE "no"

\* validate_request: r is "true", "false", or "throw" when json::value raises;
\* why is the reason written for a false result.
validate_request(j) ==
  IF ~is_object(j) THEN [r |-> "false", why |-> "not an object"]
  ELSE LET v == json_value_str(j, "jsonrpc") IN
    IF v.threw THEN [r |-> "throw", why |-> ""]
    ELSE IF v.s # "2.0" THEN [r |-> "false", why |-> "jsonrpc != 2.0"]
    ELSE IF ~contains(j, "method") \/ ~is_string(j.o["method"])
      THEN [r |-> "false", why |-> "method missing or not string"]
    ELSE IF contains(j, "id") /\ ~valid_id_type(j.o["id"])
      THEN [r |-> "false", why |-> "invalid id type"]
    ELSE IF contains(j, "params")
            /\ ~(is_array(j.o["params"]) \/ is_object(j.o["params"]))
      THEN [r |-> "false", why |-> "params must be array or object"]
    ELSE [r |-> "true", why |-> ""]

\* validate_response: "true", "false", or "throw" when json::value raises.
validate_response(j) ==
  IF ~is_object(j) THEN "false"
  ELSE LET v == json_value_str(j, "jsonrpc") IN
    IF v.threw THEN "throw"
    ELSE IF v.s # "2.0" THEN "false"
    ELSE IF ~contains(j, "id") \/ ~valid_id_type(j.o["id"]) THEN "false"
    ELSE IF contains(j, "result") = contains(j, "error") THEN "false"
    ELSE IF contains(j, "error")
            /\ LET e == j.o["error"] IN
               \/ ~is_object(e)
               \/ ~contains(e, "code") \/ ~is_number_integer(e.o["code"])
               \/ ~contains(e, "message") \/ ~is_string(e.o["message"])
      THEN "false"
    ELSE "true"

\* ------------------------------------------------------------------------
\* Builders
\* ------------------------------------------------------------------------
\* make_request that names version 2 of the protocol "2".
make_request_short_version(id, method, params) ==
  JObj([jsonrpc |-> JStr("2"), method |-> JStr(method)]
       @@ (IF ~is_null(params) /\ ~json_empty(params)
           THEN [params |-> params] ELSE NoMembers)
       @@ (IF ~is_null(id) THEN [id |-> id] ELSE NoMembers))

\* make_request: params is stored only when it is neither null nor empty, id
\* only when it is not the nullptr alternative.
make_request(id, method, params) ==
  JObj([jsonrpc |-> JStr("2.0"), method |-> JStr(method)]
       @@ (IF ~is_null(params) /\ ~json_empty(params)
           THEN [params |-> params] ELSE NoMembers)
       @@ (IF ~is_null(id) THEN [id |-> id] ELSE NoMembers))

make_notification(method, params) == make_request(JNull, method, params)

\* make_result that loses the id it was given.
make_result_null_id(id, result) ==
  JObj([jsonrpc |-> JStr("2.0"), id |-> JNull, result |-> result])

make_result(id, result) ==
  JObj([jsonrpc |-> JStr("2.0"), id |-> id, result |-> result])

\* make_error that writes a null result beside the error.
make_error_with_result(id, e) ==
  JObj([jsonrpc |-> JStr("2.0"), id |-> id, result |-> JNull,
        error |-> make_error_object(e)])

\* make_error that loses the id it was given.
make_error_null_id(id, e) ==
  JObj([jsonrpc |-> JStr("2.0"), id |-> JNull, error |-> make_error_object(e)])

make_error(id, e) ==
  JObj([jsonrpc |-> JStr("2.0"), id |-> id, error |-> make_error_object(e)])

\* ------------------------------------------------------------------------
\* Typed adapter.  A domain type is named by a string: "int", "string",
\* "vector_int" (std::vector<int>), "Point" (a struct with members x and y
\* and a hand-written adl_serializer), "json" (the raw value type) and
\* "void".  A domain value is an integer, a string, a sequence of integers
\* or a record [x, y].
\* ------------------------------------------------------------------------
\* json(x): the encoding of a domain value x of type T.
to_json(T, x) ==
  CASE T = "int" -> JInt(x)
    [] T = "string" -> JStr(x)
    [] T = "vector_int" -> JArr([i \in 1..Len(x) |-> JInt(x[i])])
    [] T = "Point" -> JObj([x |-> JInt(x.x), y |-> JInt(x.y)])
    [] T = "json" -> x

\* j.get<T>(): the decoded value, or the what() of the json::exception the
\* decoder raises.  get<int> takes numbers and booleans; the members of a
\* Point are doubles, which take numbers only; Point reads its members with
\* at().
json_get(T, j) ==
  LET type_name(e) == CASE e.t = "null" -> "null"
                        [] e.t = "obj" -> "object"
                        [] e.t = "arr" -> "array"
                        [] e.t = "str" -> "string"
                        [] e.t = "bool" -> "boolean"
                        [] OTHER -> "number"
      ok(v) == [threw |-> FALSE, v |-> v]
      fail(what) == [threw |-> TRUE, what |-> what]
      must(kind, e) == fail("[json.exception.type_error.302] type must be "
                            \o kind \o ", but is " \o type_name(e))
      int(e) == IF e.t = "int" THEN e.n ELSE IF e.b THEN 1 ELSE 0
  IN CASE T = "json" -> ok(j)
       [] T = "int" ->
            IF j.t \in {"int", "bool"} THEN ok(int(j)) ELSE must("number", j)
       [] T = "string" -> IF is_string(j) THEN ok(j.s) ELSE must("string", j)
       [] T = "vector_int" ->
            IF ~is_array(j) THEN must("array", j)
            ELSE IF \E i \in 1..Len(j.a) : j.a[i].t \notin {"int", "bool"}
            THEN must("number",
                      j.a[CHOOSE i \in 1..Len(j.a) :
                            /\ j.a[i].t \notin {"int", "bool"}
                            /\ \A k \in 1..(i - 1) : j.a[k].t \in {"int", "bool"}])
            ELSE ok([i \in 1..Len(j.a) |-> int(j.a[i])])
       [] T = "Point" ->
            IF ~is_object(j)
            THEN fail("[json.exception.type_error.304] cannot use at() with "
                      \o type_name(j))
            ELSE IF ~contains(j, "x")
            THEN fail("[json.exception.out_of_range.403] key 'x' not found")
            ELSE IF ~is_number_integer(j.o["x"]) THEN must("number", j.o["x"])
            ELSE IF ~contains(j, "y")
            THEN fail("[json.exception.out_of_range.403] key 'y' not found")
            ELSE IF ~is_number_integer(j.o["y"]) THEN must("number", j.o["y"])
            ELSE ok([x |-> j.o["x"].n, y |-> j.o["y"].n])

\* deserialize_params that decodes from the first element of every non-empty
\* array.
deserialize_params_first_of_any(T, params) ==
  IF T = "json" THEN [threw |-> FALSE, v |-> params]
  ELSE json_get(T, IF is_array(params) /\ Len(params.a) >= 1
                   THEN params.a[1] ELSE params)

\* detail::deserialize_params<T>(params): the raw value type passes through;
\* any other type is decoded from params[0] when params is an array of one
\* element and from params otherwise.
deserialize_params(T, params) ==
  IF T = "json" THEN [threw |-> FALSE, v |-> params]
  ELSE json_get(T, IF is_array(params) /\ Len(params.a) = 1
                   THEN params.a[1] ELSE params)

\* detail::serialize_params(x), x of type T
serialize_params(T, x) ==
  LET j == to_json(T, x) IN
  IF is_array(j) \/ is_object(j) THEN j ELSE JArr(<<j>>)

\* detail::serialize_result(x), x of type T
serialize_result(T, x) ==
  IF T = "void" THEN JNull ELSE to_json(T, x)

\* ------------------------------------------------------------------------
\* Handlers.  A registered function is described by what it does when it is
\* called: return its params, return a fixed value, raise an rpc_exception
\* carrying an error, or raise another std::exception with text what().
\* ------------------------------------------------------------------------
FnEcho == [kind |-> "echo"]
FnRet(v) == [kind |-> "ret", v |-> v]
FnRpc(e) == [kind |-> "rpc", err |-> e]
FnStd(s) == [kind |-> "std", what |-> s]
\* A cooperative task: it runs its steps in order and returns "done".  Step
\* "poll" is `if (is_canceled()) throw rpc_exception(request_cancelled)`,
\* step "peek" reads is_canceled() and goes on, step "progress" is
\* report_progress(i) with i the position of the step, and step
\* "recv_cancel" is the peer's "$/cancelRequest" for the id of the running
\* request arriving meanwhile: receive is called with it before the handler
\* goes on.  Step "ctx" reads current_context(), and step "recv_m2" is the
\* handler calling receive with the notification {method: "m2"}.
FnTask(steps) == [kind |-> "task", steps |-> steps]
\* A typed function std::function<R(P)> behind detail::make_typed_handler:
\* it returns its argument (R = P), or nothing (R = "void").
FnTyped(P, R) == [kind |-> "typed", params_t |-> P, result_t |-> R]

Ret(v) == [k |-> "ret", v |-> v]
ThrowRpc(e) == [k |-> "rpc", err |-> e]
ThrowStd(s) == [k |-> "std", what |-> s]

\* What can be observed of one call into the library, in order: a user
\* function invoked, a client callback invoked, a message passed to send_.
EvCall(fn, params) == [ev |-> "call", fn |-> fn, params |-> params]
EvCb(cb, arg) == [ev |-> "cb", cb |-> cb, arg |-> arg]
EvPoll(b) == [ev |-> "poll", value |-> b]
\* What current_context() gave a user function: no context, or its id.
EvCtx(ctx) ==
  [ev |-> "ctx", some |-> ctx.some, id |-> IF ctx.some THEN ctx.id ELSE JNull]
EvSend(self, msg, pend, canc) ==
  [ev |-> "send", ep |-> self, msg |-> msg, pending |-> pend, cancels |-> canc]

Log(env, e) == [env EXCEPT !.trace = Append(@, e)]

\* The events of one kind in a trace, in order.
Sends(trace) == SelectSeq(trace, LAMBDA e : e.ev = "send")
Calls(trace) == SelectSeq(trace, LAMBDA e : e.ev = "call")
CbEvents(trace) == SelectSeq(trace, LAMBDA e : e.ev = "cb")
Polls(trace) == SelectSeq(trace, LAMBDA e : e.ev = "poll")
Ctxs(trace) == SelectSeq(trace, LAMBDA e : e.ev = "ctx")

NoCtx == [some |-> FALSE]

\* send_(msg) of endpoint self: the sink sees the message; the trace also
\* keeps the keys of the pending-call and cancellation tables at that moment.
Send(env, self, msg) ==
  Log(env, EvSend(self, msg, DOMAIN env.ep[self].pending,
                  DOMAIN env.ep[self].server_cancels))

\* endpoint::send_progress
send_progress(env, self, token, value) ==
  Send(env, self, make_notification("$/progress",
                                    JObj([token |-> JStr(token), value |-> value])))

\* is_canceled(): false without a context, else the flag the context's
\* closure captured.  The only messages a handler of this model hands to
\* receive while it runs are notifications, which erase no table entry, so
\* the captured flag is the table's entry.
is_canceled(env) ==
  /\ env.tls_ctx.some
  /\ env.ep[env.tls_ctx.ep].server_cancels[env.tls_ctx.flag]

\* report_progress(value): nothing without a context.
report_progress(env, value) ==
  IF env.tls_ctx.some
  THEN send_progress(env, env.tls_ctx.ep, env.tls_ctx.token, value)
  ELSE env

RECURSIVE receive(_, _, _)

\* The steps of a task from position i on.
RECURSIVE RunSteps(_, _, _)
RunSteps(env, steps, i) ==
  IF i > Len(steps) THEN [env |-> env, res |-> Ret(JStr("done"))]
  ELSE CASE steps[i] = "poll" ->
              LET c == is_canceled(env) IN
              IF c THEN [env |-> Log(env, EvPoll(c)),
                         res |-> ThrowRpc(request_cancelled)]
              ELSE RunSteps(Log(env, EvPoll(c)), steps, i + 1)
         [] steps[i] = "peek" ->
              RunSteps(Log(env, EvPoll(is_canceled(env))), steps, i + 1)
         [] steps[i] = "progress" ->
              RunSteps(report_progress(env, JInt(i)), steps, i + 1)
         [] steps[i] = "recv_cancel" ->
              RunSteps(receive(env, env.tls_ctx.ep,
                               make_notification("$/cancelRequest",
                                                 JObj([id |-> env.tls_ctx.id]))).env,
                       steps, i + 1)
         [] steps[i] = "ctx" ->
              RunSteps(Log(env, EvCtx(env.tls_ctx)), steps, i + 1)
         [] steps[i] = "recv_m2" ->
              RunSteps(receive(env, env.tls_ctx.ep,
                               make_notification("m2", JNull)).env,
                       steps, i + 1)

\* make_typed_handler without the catch block: the json::exception leaves
\* the handler as it is.
make_typed_handler_no_catch(fn, env, params) ==
  CHOOSE c \in
    {IF d.threw THEN [env |-> env, res |-> ThrowStd(d.what)]
     ELSE [env |-> Log(env, EvCall(fn, d.v)),
           res |-> Ret(serialize_result(fn.result_t, d.v))] :
       d \in {deserialize_params(fn.params_t, params)}} : TRUE

\* The handler detail::make_typed_handler makes of a typed function: a
\* json::exception raised while decoding becomes an rpc_exception carrying
\* invalid_params with data {what: ex.what()}.
make_typed_handler(fn, env, params) ==
  CHOOSE c \in
    {IF d.threw
     THEN [env |-> env,
           res |-> ThrowRpc([invalid_params EXCEPT
                               !.data = JObj([what |-> JStr(d.what)])])]
     ELSE [env |-> Log(env, EvCall(fn, d.v)),
           res |-> Ret(serialize_result(fn.result_t, d.v))] :
       d \in {deserialize_params(fn.params_t, params)}} : TRUE

\* The body of a user function.
RunUser(fn, env, params) ==
  IF fn.kind = "task" THEN RunSteps(Log(env, EvCall(fn, params)), fn.steps, 1)
  ELSE IF fn.kind = "typed" THEN make_typed_handler(fn, env, params)
  ELSE
  [env |-> Log(env, EvCall(fn, params)),
   res |-> CASE fn.kind = "echo" -> Ret(params)
             [] fn.kind = "ret" -> Ret(fn.v)
             [] fn.kind = "rpc" -> ThrowRpc(fn.err)
             [] fn.kind = "std" -> ThrowStd(fn.what)]

\* ------------------------------------------------------------------------
\* Endpoint: helpers and the handlers it registers
\* ------------------------------------------------------------------------
NoId == [some |-> FALSE]
SomeId(id) == [some |-> TRUE, v |-> id]

\* An empty std::function, and a client callback that is told apart by tag.
NoCb == [kind |-> "empty"]
Cb(on, tag) == [kind |-> "fn", on |-> on, tag |-> tag]
\* A client callback that hands msg to receive of its own endpoint before it
\* returns.
CbRe(on, tag, msg) == [kind |-> "re", on |-> on, tag |-> tag, msg |-> msg]
\* The callback send_request_typed stores: it decodes the result into type
\* T and hands it to cb, or does nothing when cb is empty.
CbTyped(T, cb) == [kind |-> "typed", result_t |-> T, inner |-> cb]

\* key_for_id without the case for strings: a string id keeps its quotes.
key_for_id_dump_only(id) == dump(id)

\* endpoint::key_for_id
key_for_id(id) == IF is_string(id) THEN id.s ELSE dump(id)

\* m[k] = v for a map held as a function: insert or assign.
MapPut(m, k, v) == [x \in DOMAIN m \cup {k} |-> IF x = k THEN v ELSE m[x]]
\* m.erase(k)
MapErase(m, k) == [x \in DOMAIN m \ {k} |-> m[x]]

\* The "$/cancelRequest" handler that sets a flag only when the table has
\* one for the key.
cancel_request_handler_existing_only(env, self, params) ==
  IF ~is_object(params) \/ ~contains(params, "id")
  THEN [env |-> env, res |-> Ret(JNull)]
  ELSE LET key == key_for_id(params.o["id"]) IN
       [env |-> IF key \in DOMAIN env.ep[self].server_cancels
                THEN [env EXCEPT !.ep[self].server_cancels = MapPut(@, key, TRUE)]
                ELSE env,
        res |-> Ret(JNull)]

\* The "$/cancelRequest" handler that flips the flag instead of setting it.
cancel_request_handler_toggle(env, self, params) ==
  IF ~is_object(params) \/ ~contains(params, "id")
  THEN [env |-> env, res |-> Ret(JNull)]
  ELSE LET key == key_for_id(params.o["id"])
           cur == key \in DOMAIN env.ep[self].server_cancels
                  /\ env.ep[self].server_cancels[key]
       IN [env |-> [env EXCEPT !.ep[self].server_cancels = MapPut(@, key, ~cur)],
           res |-> Ret(JNull)]

\* The "$/cancelRequest" handler that does nothing while a user handler is
\* running.
cancel_request_handler_idle_only(env, self, params) ==
  IF ~is_object(params) \/ ~contains(params, "id") \/ env.tls_ctx.some
  THEN [env |-> env, res |-> Ret(JNull)]
  ELSE LET key == key_for_id(params.o["id"]) IN
       [env |-> [env EXCEPT !.ep[self].server_cancels = MapPut(@, key, TRUE)],
        res |-> Ret(JNull)]

\* The "$/cancelRequest" handler registered by the constructor.
cancel_request_handler(env, self, params) ==
  IF ~is_object(params) \/ ~contains(params, "id")
  THEN [env |-> env, res |-> Ret(JNull)]
  ELSE LET key == key_for_id(params.o["id"]) IN
       [env |-> [env EXCEPT !.ep[self].server_cancels = MapPut(@, key, TRUE)],
        res |-> Ret(JNull)]

\* The "$/progress" handler that hands the whole params to the callback.
progress_handler_passes_params(env, self, params) ==
  IF ~is_object(params) THEN [env |-> env, res |-> Ret(JNull)]
  ELSE
    LET tv == json_value_str(params, "token") IN
    IF tv.threw THEN [env |-> env, res |-> ThrowStd("json.type_error")]
    ELSE IF tv.s = "" THEN [env |-> env, res |-> Ret(JNull)]
    ELSE
      LET ph == env.ep[self].progress_handlers
      IN IF tv.s \in DOMAIN ph /\ ph[tv.s].kind # "empty"
         THEN [env |-> Log(env, EvCb(ph[tv.s], params)), res |-> Ret(JNull)]
         ELSE [env |-> env, res |-> Ret(JNull)]

\* The "$/progress" handler registered by the constructor.  json::value
\* raises a type_error when token is present and not a string.
progress_handler(env, self, params) ==
  IF ~is_object(params) THEN [env |-> env, res |-> Ret(JNull)]
  ELSE
    LET tv == json_value_str(params, "token") IN
    IF tv.threw THEN [env |-> env, res |-> ThrowStd("json.type_error")]
    ELSE IF tv.s = "" THEN [env |-> env, res |-> Ret(JNull)]
    ELSE
      LET ph == env.ep[self].progress_handlers
          value == IF contains(params, "value") THEN params.o["value"] ELSE JNull
      IN IF tv.s \in DOMAIN ph /\ ph[tv.s].kind # "empty"
         THEN [env |-> Log(env, EvCb(ph[tv.s], value)), res |-> Ret(JNull)]
         ELSE [env |-> env, res |-> Ret(JNull)]

\* The "initialize" handler that answers with the capabilities the endpoint
\* was constructed with.
initialize_handler_default_caps(env, self, params) ==
  [env |-> [env EXCEPT !.ep[self].initialized = TRUE],
   res |-> Ret(JObj([capabilities |-> JObj(NoMembers)]))]

\* The "initialize" handler registered by the constructor.
initialize_handler(env, self, params) ==
  [env |-> [env EXCEPT !.ep[self].initialized = TRUE],
   res |-> Ret(JObj([capabilities |-> env.ep[self].server_capabilities]))]

\* The wrapper without the catch block: tls_ctx is cleared only when the user
\* function returns.
wrapped_handler_no_catch(fn, env, self, params) ==
  LET e == env.ep[self]
      id == IF e.current_req_id.some THEN e.current_req_id.v ELSE JNull
      id_key == key_for_id(id)
      cancels == IF id_key \in DOMAIN e.server_cancels THEN e.server_cancels
                 ELSE MapPut(e.server_cancels, id_key, FALSE)
      token == IF is_object(params) /\ contains(params, "progressToken")
                  /\ is_string(params.o["progressToken"])
               THEN params.o["progressToken"].s ELSE id_key
      ctx == [some |-> TRUE, id |-> id, token |-> token, ep |-> self,
              flag |-> id_key]
      env1 == [env EXCEPT !.ep[self].server_cancels = cancels, !.tls_ctx = ctx]
      after(c) ==
        [env |-> IF c.res.k = "ret" THEN [c.env EXCEPT !.tls_ctx = NoCtx]
                 ELSE c.env,
         res |-> c.res]
  IN after(RunUser(fn, env1, params))

\* The wrapper endpoint::add registers around the user function fn.
wrapped_handler(fn, env, self, params) ==
  LET e == env.ep[self]
      id == IF e.current_req_id.some THEN e.current_req_id.v ELSE JNull
      id_key == key_for_id(id)
      cancels == IF id_key \in DOMAIN e.server_cancels THEN e.server_cancels
                 ELSE MapPut(e.server_cancels, id_key, FALSE)
      token == IF is_object(params) /\ contains(params, "progressToken")
                  /\ is_string(params.o["progressToken"])
               THEN params.o["progressToken"].s ELSE id_key
      ctx == [some |-> TRUE, id |-> id, token |-> token, ep |-> self,
              flag |-> id_key]
      env1 == [env EXCEPT !.ep[self].server_cancels = cancels, !.tls_ctx = ctx]
      after(c) == [env |-> [c.env EXCEPT !.tls_ctx = NoCtx], res |-> c.res]
  IN after(RunUser(fn, env1, params))

HCancel == [kind |-> "$/cancelRequest"]
HProgress == [kind |-> "$/progress"]
HInitialize == [kind |-> "initialize"]
HWrapped(fn) == [kind |-> "wrapped", fn |-> fn]

\* Calling a registered handler_t (it->second(params)).
Invoke(h, env, self, params) ==
  CASE h.kind = "$/cancelRequest" -> cancel_request_handler(env, self, params)
    [] h.kind = "$/progress" -> progress_handler(env, self, params)
    [] h.kind = "initialize" -> initialize_handler(env, self, params)
    [] h.kind = "wrapped" -> wrapped_handler(h.fn, env, self, params)
    [] OTHER -> RunUser(h, env, params)

\* ------------------------------------------------------------------------
\* Dispatcher
\* ------------------------------------------------------------------------
None == [k |-> "none"]
Some(r) == [k |-> "some", r |-> r]
Thrown(s) == [k |-> "throw", what |-> s]

\* dispatcher::add that inserts only: a method that has a handler keeps it.
dispatcher_add_keeps_first(handlers, method, fn) ==
  [m \in DOMAIN handlers \cup {method} |->
     IF m \in DOMAIN handlers THEN handlers[m] ELSE fn]

\* dispatcher::add: insert or replace.
dispatcher_add(handlers, method, fn) ==
  [m \in DOMAIN handlers \cup {method} |->
     IF m = method THEN fn ELSE handlers[m]]

\* handler_response whose last catch block answers notifications too.
handler_response_answers_notif(is_notif, id, res) ==
  CASE res.k = "ret" -> IF is_notif THEN None ELSE Some(make_result(id, res.v))
    [] res.k = "rpc" -> IF is_notif THEN None ELSE Some(make_error(id, res.err))
    [] res.k = "std" ->
         Some(make_error(id, [internal_error EXCEPT
                                !.data = JObj([what |-> JStr(res.what)])]))

\* handler_response without the last catch block: the exception leaves.
handler_response_no_catch(is_notif, id, res) ==
  CASE res.k = "ret" -> IF is_notif THEN None ELSE Some(make_result(id, res.v))
    [] res.k = "rpc" -> IF is_notif THEN None ELSE Some(make_error(id, res.err))
    [] res.k = "std" -> Thrown(res.what)

\* The tail of handle_single: what the outcome of the handler call becomes.
handler_response(is_notif, id, res) ==
  CASE res.k = "ret" -> IF is_notif THEN None ELSE Some(make_result(id, res.v))
    [] res.k = "rpc" -> IF is_notif THEN None ELSE Some(make_error(id, res.err))
    [] res.k = "std" ->
         IF is_notif THEN None
         ELSE Some(make_error(id, [internal_error EXCEPT
                                     !.data = JObj([what |-> JStr(res.what)])]))

\* dispatcher::handle_single: the environment after the call and the
\* optional response (or the exception that left the call).
handle_single(handlers, env, self, msg) ==
  LET v == validate_request(msg) IN
  IF v.r = "throw" THEN [env |-> env, out |-> Thrown("json.type_error")]
  ELSE IF v.r = "false"
    THEN [env |-> env, out |-> Some(make_error(JNull, invalid_request))]
  ELSE
    LET method == msg.o["method"].s
        is_notif == ~contains(msg, "id")
        id == IF is_notif THEN JNull ELSE msg.o["id"]
    IN IF method \notin DOMAIN handlers
       THEN [env |-> env,
             out |-> IF is_notif THEN None
                     ELSE Some(make_error(id, method_not_found))]
       ELSE
         LET params == IF contains(msg, "params") THEN msg.o["params"] ELSE JNull
             answer(c) ==
               [env |-> c.env, out |-> handler_response(is_notif, id, c.res)]
         IN answer(Invoke(handlers[method], env, self, params))

\* handle_loop that puts each response in front of the earlier ones.
RECURSIVE handle_loop_reversed(_, _, _, _, _)
handle_loop_reversed(handlers, env, els, i, outs) ==
  IF i > Len(els) THEN [env |-> env, outs |-> outs, threw |-> FALSE]
  ELSE LET r == handle_single(handlers, env, "", els[i]) IN
       IF r.out.k = "throw" THEN [env |-> r.env, outs |-> outs, threw |-> TRUE]
       ELSE handle_loop_reversed(handlers, r.env, els, i + 1,
                        IF r.out.k = "some" THEN <<r.out.r>> \o outs ELSE outs)

\* The loop of dispatcher::handle over the elements from position i on:
\* outs collects the responses; an exception leaves the loop at once.
RECURSIVE handle_loop(_, _, _, _, _)
handle_loop(handlers, env, els, i, outs) ==
  IF i > Len(els) THEN [env |-> env, outs |-> outs, threw |-> FALSE]
  ELSE LET r == handle_single(handlers, env, "", els[i]) IN
       IF r.out.k = "throw" THEN [env |-> r.env, outs |-> outs, threw |-> TRUE]
       ELSE handle_loop(handlers, r.env, els, i + 1,
                        IF r.out.k = "some" THEN Append(outs, r.out.r) ELSE outs)

\* dispatcher::handle: single message or batch.
handle(handlers, env, input) ==
  IF is_array(input)
  THEN IF Len(input.a) = 0
       THEN [env |-> env, out |-> Some(make_error(JNull, invalid_request))]
       ELSE LET l == handle_loop(handlers, env, input.a, 1, <<>>) IN
            [env |-> l.env,
             out |-> IF l.threw THEN Thrown("json.type_error")
                     ELSE IF Len(l.outs) = 0 THEN None
                     ELSE Some(JArr(l.outs))]
  ELSE handle_single(handlers, env, "", input)

\* ------------------------------------------------------------------------
\* Endpoint
\* ------------------------------------------------------------------------
EmptyMap == [k \in {} |-> FALSE]

\* The endpoint after its constructor has run.
NewEndpoint ==
  [handlers |-> [m \in {"$/cancelRequest", "$/progress", "initialize"} |->
                   CASE m = "$/cancelRequest" -> HCancel
                     [] m = "$/progress" -> HProgress
                     [] m = "initialize" -> HInitialize],
   pending |-> EmptyMap,
   server_cancels |-> EmptyMap,
   progress_handlers |-> EmptyMap,
   current_req_id |-> NoId,
   server_capabilities |-> JObj(NoMembers),
   initialized |-> FALSE,
   id_counter |-> 0]

\* endpoint::add
endpoint_add(env, self, method, fn) ==
  [env EXCEPT !.ep[self].handlers = dispatcher_add(@, method, HWrapped(fn))]

\* gen_id that reads the counter before it increments it.
gen_id_post_increment(counter, prefix) == prefix \o ToString(counter)

\* endpoint::gen_id: the counter is incremented first.
gen_id(counter, prefix) == prefix \o ToString(counter + 1)

\* send_request that emits the request before it stores the callbacks.
send_request_send_first(env, self, method, params, on_result, on_error) ==
  LET id == gen_id(env.ep[self].id_counter, "req-")
      env1 == Send([env EXCEPT !.ep[self].id_counter = @ + 1], self,
                   make_request(JStr(id), method, params))
  IN [env |-> [env1 EXCEPT !.ep[self].pending =
                              MapPut(@, id, [ok |-> on_result, err |-> on_error])],
      ret |-> id]

\* endpoint::send_request: the environment after the call and the id returned.
send_request(env, self, method, params, on_result, on_error) ==
  LET id == gen_id(env.ep[self].id_counter, "req-")
      env1 == [env EXCEPT !.ep[self].id_counter = @ + 1,
                          !.ep[self].pending =
                             MapPut(@, id, [ok |-> on_result, err |-> on_error])]
  IN [env |-> Send(env1, self, make_request(JStr(id), method, params)),
      ret |-> id]

\* endpoint::send_request_with_id: the caller's id, no counter.
send_request_with_id(env, self, id, method, params, on_result, on_error) ==
  LET env1 == [env EXCEPT !.ep[self].pending =
                             MapPut(@, id, [ok |-> on_result, err |-> on_error])]
  IN Send(env1, self, make_request(JStr(id), method, params))

\* endpoint::set_server_capabilities
set_server_capabilities(env, self, caps) ==
  [env EXCEPT !.ep[self].server_capabilities = caps]

\* endpoint::initialize
initialize(env, self, params, on_result, on_error) ==
  send_request(env, self, "initialize", params, on_result, on_error)

\* endpoint::create_progress_token: the environment after the call and the
\* token returned.
create_progress_token(env, self) ==
  [env |-> [env EXCEPT !.ep[self].id_counter = @ + 1],
   ret |-> gen_id(env.ep[self].id_counter, "tok-")]

\* endpoint::on_progress
on_progress(env, self, token, cb) ==
  [env EXCEPT !.ep[self].progress_handlers = MapPut(@, token, cb)]

\* endpoint::send_notification
send_notification(env, self, method, params) ==
  Send(env, self, make_notification(method, params))

\* endpoint::send_request_typed<P, R>(method, x, on_result, on_error)
send_request_typed(env, self, method, P, x, R, on_result, on_error) ==
  send_request(env, self, method, serialize_params(P, x),
               CbTyped(R, on_result), on_error)

\* endpoint::send_notification_typed<P>(method, x)
send_notification_typed(env, self, method, P, x) ==
  send_notification(env, self, method, serialize_params(P, x))

\* endpoint::cancel
endpoint_cancel(env, self, id) ==
  Send(env, self, make_notification("$/cancelRequest", JObj([id |-> id])))

\* on_ok(arg) / on_err(arg): the callback runs, and an exception that leaves
\* the receive call it makes leaves the callback too.
InvokeCb(env, self, cb, arg) ==
  IF cb.kind = "re" THEN receive(Log(env, EvCb(cb, arg)), self, cb.msg)
  ELSE IF cb.kind = "typed"
    THEN IF cb.inner.kind = "empty" THEN [env |-> env, threw |-> FALSE]
         ELSE CHOOSE c \in
                {IF d.threw THEN [env |-> env, threw |-> TRUE]
                 ELSE [env |-> Log(env, EvCb(cb.inner, d.v)), threw |-> FALSE] :
                   d \in {deserialize_params(cb.result_t, arg)}} : TRUE
  ELSE [env |-> Log(env, EvCb(cb, arg)), threw |-> FALSE]

\* handle_incoming_response that looks the key up with operator[], which
\* leaves an entry with two empty callbacks behind for an unknown key.
handle_incoming_response_inserts(env, self, r) ==
  LET key == key_for_id(r.o["id"])
      pending == env.ep[self].pending
  IN IF key \notin DOMAIN pending
     THEN [env |-> [env EXCEPT !.ep[self].pending =
                                  MapPut(@, key, [ok |-> NoCb, err |-> NoCb])],
           threw |-> FALSE]
     ELSE LET cbs == pending[key]
              env1 == [env EXCEPT !.ep[self].pending = MapErase(@, key)]
          IN IF contains(r, "result") /\ cbs.ok.kind # "empty"
             THEN InvokeCb(env1, self, cbs.ok, r.o["result"])
             ELSE IF ~contains(r, "result") /\ contains(r, "error")
                     /\ cbs.err.kind # "empty"
             THEN InvokeCb(env1, self, cbs.err, r.o["error"])
             ELSE [env |-> env1, threw |-> FALSE]

\* handle_incoming_response that erases the entry only on the result branch.
handle_incoming_response_keeps_on_error(env, self, r) ==
  LET key == key_for_id(r.o["id"])
      pending == env.ep[self].pending
  IN IF key \notin DOMAIN pending THEN [env |-> env, threw |-> FALSE]
     ELSE LET cbs == pending[key]
              env1 == [env EXCEPT !.ep[self].pending = MapErase(@, key)]
          IN IF contains(r, "result")
             THEN IF cbs.ok.kind # "empty"
                  THEN InvokeCb(env1, self, cbs.ok, r.o["result"])
                  ELSE [env |-> env1, threw |-> FALSE]
             ELSE IF contains(r, "error") /\ cbs.err.kind # "empty"
             THEN InvokeCb(env, self, cbs.err, r.o["error"])
             ELSE [env |-> env, threw |-> FALSE]

\* endpoint::handle_incoming_response: the environment after the call, and
\* whether an exception left it.
handle_incoming_response(env, self, r) ==
  LET key == key_for_id(r.o["id"])
      pending == env.ep[self].pending
  IN IF key \notin DOMAIN pending THEN [env |-> env, threw |-> FALSE]
     ELSE LET cbs == pending[key]
              env1 == [env EXCEPT !.ep[self].pending = MapErase(@, key)]
          IN IF contains(r, "result")
             THEN IF cbs.ok.kind # "empty"
                  THEN InvokeCb(env1, self, cbs.ok, r.o["result"])
                  ELSE [env |-> env1, threw |-> FALSE]
             ELSE IF contains(r, "error")
             THEN IF cbs.err.kind # "empty"
                  THEN InvokeCb(env1, self, cbs.err, r.o["error"])
                  ELSE [env |-> env1, threw |-> FALSE]
             ELSE [env |-> env1, threw |-> FALSE]

\* The batch loop that hands a response-shaped element to
\* handle_incoming_response, as the single-message path does.
RECURSIVE receive_loop_resolves_responses(_, _, _, _, _)
receive_loop_resolves_responses(env, self, els, i, outs) ==
  IF i > Len(els) THEN [env |-> env, outs |-> outs, threw |-> FALSE]
  ELSE IF is_response(els[i]) = "yes"
    THEN receive_loop_resolves_responses(
           handle_incoming_response(env, self, els[i]).env, self, els, i + 1, outs)
  ELSE
    LET m == els[i]
        id_opt == IF contains(m, "id") THEN m.o["id"] ELSE JNull
        env1 == [env EXCEPT !.ep[self].current_req_id = SomeId(id_opt)]
        after(r) ==
          IF r.out.k = "throw" THEN [env |-> r.env, outs |-> outs, threw |-> TRUE]
          ELSE receive_loop_resolves_responses(
                 [r.env EXCEPT
                    !.ep[self].current_req_id = NoId,
                    !.ep[self].server_cancels =
                       IF contains(m, "id") THEN MapErase(@, key_for_id(m.o["id"]))
                       ELSE @],
                 self, els, i + 1,
                 IF r.out.k = "some" THEN Append(outs, r.out.r) ELSE outs)
    IN after(handle_single(env1.ep[self].handlers, env1, self, m))

\* The batch loop that takes the elements from the last to the first.
RECURSIVE receive_loop_reversed(_, _, _, _, _)
receive_loop_reversed(env, self, els, i, outs) ==
  IF i > Len(els) THEN [env |-> env, outs |-> outs, threw |-> FALSE]
  ELSE
    LET m == els[Len(els) + 1 - i]
        id_opt == IF contains(m, "id") THEN m.o["id"] ELSE JNull
        env1 == [env EXCEPT !.ep[self].current_req_id = SomeId(id_opt)]
        after(r) ==
          IF r.out.k = "throw" THEN [env |-> r.env, outs |-> outs, threw |-> TRUE]
          ELSE receive_loop_reversed(
                 [r.env EXCEPT
                    !.ep[self].current_req_id = NoId,
                    !.ep[self].server_cancels =
                       IF contains(m, "id") THEN MapErase(@, key_for_id(m.o["id"]))
                       ELSE @],
                 self, els, i + 1,
                 IF r.out.k = "some" THEN <<r.out.r>> \o outs ELSE outs)
    IN after(handle_single(env1.ep[self].handlers, env1, self, m))

\* The batch loop of endpoint::receive from element i on.  An exception that
\* leaves handle_single leaves the loop with current_req_id_ still set.
RECURSIVE receive_loop(_, _, _, _, _)
receive_loop(env, self, els, i, outs) ==
  IF i > Len(els) THEN [env |-> env, outs |-> outs, threw |-> FALSE]
  ELSE
    LET m == els[i]
        id_opt == IF contains(m, "id") THEN m.o["id"] ELSE JNull
        env1 == [env EXCEPT !.ep[self].current_req_id = SomeId(id_opt)]
        after(r) ==
          IF r.out.k = "throw" THEN [env |-> r.env, outs |-> outs, threw |-> TRUE]
          ELSE receive_loop(
                 [r.env EXCEPT
                    !.ep[self].current_req_id = NoId,
                    !.ep[self].server_cancels =
                       IF contains(m, "id") THEN MapErase(@, key_for_id(m.o["id"]))
                       ELSE @],
                 self, els, i + 1,
                 IF r.out.k = "some" THEN Append(outs, r.out.r) ELSE outs)
    IN after(handle_single(env1.ep[self].handlers, env1, self, m))

\* endpoint::receive: the environment after the call, and whether an
\* exception left it.
receive(env, self, msg) ==
  IF is_array(msg)
  THEN IF Len(msg.a) = 0
       THEN [env |-> Send(env, self, make_error(JNull, invalid_request)),
             threw |-> FALSE]
       ELSE LET after(l) ==
                  [env |-> IF ~l.threw /\ Len(l.outs) > 0
                           THEN Send(l.env, self, JArr(l.outs)) ELSE l.env,
                   threw |-> l.threw]
            IN after(receive_loop(env, self, msg.a, 1, <<>>))
  ELSE
    LET ir == is_response(msg) IN
    IF ir = "throw" THEN [env |-> env, threw |-> TRUE]
    ELSE IF ir = "yes"
      THEN handle_incoming_response(env, self, msg)
    ELSE
      LET id_opt == IF contains(msg, "id") THEN msg.o["id"] ELSE JNull
          env1 == [env EXCEPT !.ep[self].current_req_id = SomeId(id_opt)]
          after(r) ==
            IF r.out.k = "throw" THEN [env |-> r.env, threw |-> TRUE]
            ELSE IF r.out.k = "some"
              THEN [env |-> [Send([r.env EXCEPT !.ep[self].current_req_id = NoId],
                                  self, r.out.r)
                               EXCEPT !.ep[self].server_cancels =
                                        IF contains(msg, "id")
                                        THEN MapErase(@, key_for_id(msg.o["id"]))
                                        ELSE @],
                    threw |-> FALSE]
            ELSE [env |-> [r.env EXCEPT !.ep[self].current_req_id = NoId],
                  threw |-> FALSE]
      IN after(handle_single(env1.ep[self].handlers, env1, self, msg))

\* ------------------------------------------------------------------------
\* Inputs: the values handed to the library
\* ------------------------------------------------------------------------
\* Zero or one member named k with a value from S.
Opt(k, S) == {NoMembers} \cup {[x \in {k} |-> v] : v \in S}

Methods == {"m1", "m2"}

UserFns ==
  {FnEcho, FnRet(JInt(42)),
   FnRpc(Err(-32000, "Custom error", JObj([info |-> JStr("test")]))),
   FnRpc(Err(-32001, "No data", JNull)),
   FnStd("Something went wrong")}

\* The user functions registered where batches and endpoint pairs are run.
FewFns ==
  {FnEcho,
   FnRpc(Err(-32000, "Custom error", JObj([info |-> JStr("test")]))),
   FnStd("Something went wrong")}

ArrParams == JArr(<<JInt(5), JInt(3)>>)
ObjParams == JObj([message |-> JStr("test")])

\* Objects with every combination of a present, absent or ill-typed jsonrpc,
\* method, id and params member, and two response-shaped objects.
ObjMsgs ==
  {JObj(a @@ b @@ c @@ e) :
     a \in Opt("jsonrpc", {JStr("2.0"), JStr("1.0"), JInt(2)}),
     b \in Opt("method", {JStr("m1"), JInt(123)}),
     c \in Opt("id", {JNull, JStr("a"), JInt(1), JBool(TRUE)}),
     e \in Opt("params", {ArrParams, JStr("string")})}
  \cup {make_request(JInt(1), "m2", ObjParams),
        make_notification("m2", ObjParams),
        make_result(JInt(1), JStr("success")),
        make_error(JInt(1), method_not_found)}

SingleMsgs == ObjMsgs \cup {JInt(5), JStr("string"), JNull}

\* The elements batches are made of.
BatchEls ==
  {make_request(JInt(1), "m1", ArrParams),
   make_request(JStr("a"), "m2", JNull),
   JObj([jsonrpc |-> JStr("2.0"), method |-> JStr("m1"), id |-> JNull]),
   make_notification("m1", ObjParams),
   JInt(5)}

RECURSIVE SeqsUpTo(_, _)
SeqsUpTo(S, n) ==
  IF n = 0 THEN {<<>>}
  ELSE LET P == SeqsUpTo(S, n - 1) IN
       P \cup {Append(q, x) : q \in {p \in P : Len(p) = n - 1}, x \in S}

Batches == {JArr(q) : q \in SeqsUpTo(BatchEls, MaxBatch)}

\* The batches handed to an endpoint's receive.
EpBatches == Batches

\* The messages handed to an endpoint's receive when it is driven one
\* message at a time.
EpMsgs ==
  BatchEls
  \cup {make_request(JInt(1), "m2", ObjParams),
        make_notification("$/cancelRequest", JObj([id |-> JStr("a")])),
        make_result(JStr("req-1"), JStr("success")),
        make_error(JStr("req-1"), method_not_found),
        make_result(JStr("req-2"), JInt(7)),
        make_result(JInt(1), JStr("success")),
        JObj([jsonrpc |-> JStr("2.0"), id |-> JStr("req-1"),
              result |-> JInt(1), error |-> make_error_object(internal_error)]),
        JObj([jsonrpc |-> JInt(2), id |-> JStr("req-1"), result |-> JInt(1)]),
        JArr(<<>>),
        JArr(<<make_result(JStr("req-1"), JStr("success")),
               make_request(JStr("a"), "m1", JNull)>>)}

\* The messages a client callback may hand back to receive.
ReMsgs ==
  {make_result(JStr("req-1"), JInt(7)), make_result(JStr("req-2"), JInt(7))}

\* The callbacks of the caller's n-th request: plain ones (c null), or ones
\* that hand c back to receive.
MkCb(on, n, c) == IF is_null(c) THEN Cb(on, n) ELSE CbRe(on, n, c)

\* The ids the caller chooses itself.
OwnIds == {"req-1", "x"}

\* The messages handed to receive of an endpoint used as a client:
\* responses by result and by error for known and unknown ids, a response
\* that also has a method, objects that are almost responses, and batches
\* whose elements are responses and other values that are no requests.
ClientMsgs ==
  {make_result(JStr("req-1"), JStr("success")),
   make_error(JStr("req-1"), method_not_found),
   make_result(JStr("req-2"), JStr("success")),
   make_error(JStr("x"), internal_error),
   make_result(JInt(1), JStr("success")),
   make_result(JNull, JStr("success")),
   JObj([jsonrpc |-> JStr("2.0"), id |-> JStr("x"), result |-> JInt(1),
         method |-> JStr("m1")]),
   JObj([jsonrpc |-> JStr("2.0"), id |-> JStr("req-1"),
         result |-> JInt(1), error |-> make_error_object(internal_error)]),
   JObj([jsonrpc |-> JStr("2.0"), id |-> JStr("req-1")]),
   JObj([jsonrpc |-> JInt(2), id |-> JStr("req-1"), result |-> JInt(1)]),
   JArr(<<make_result(JStr("req-1"), JStr("success"))>>),
   JArr(<<make_error(JStr("req-1"), method_not_found), JInt(5)>>),
   JArr(<<JStr("string"), make_request(JInt(1), "initialize", JNull)>>),
   JArr(<<JArr(<<JInt(1)>>), make_result(JStr("x"), JInt(1)),
          make_notification("initialize", JNull)>>)}

\* The user functions registered on an endpoint used as a server.
ServerFns ==
  {FnEcho,
   FnRpc(Err(-32000, "Custom error", JObj([info |-> JStr("test")]))),
   FnStd("Something went wrong"),
   FnTask(<<"poll", "progress">>),
   FnTask(<<"peek", "peek">>),
   FnTask(<<"peek", "recv_cancel", "poll">>),
   FnTyped("int", "int")}

CancelOf(id) == make_notification("$/cancelRequest", JObj([id |-> id]))

\* The messages handed to receive of an endpoint used as a server: requests
\* and notifications for the registered method, for a built-in and for an
\* unknown one, cancellations, and objects that are not quite requests.
ServerMsgs ==
  {make_request(JInt(1), "m1", ArrParams),
   make_request(JStr("a"), "m1", JNull),
   make_notification("m1", ObjParams),
   make_request(JInt(1), "m1", JArr(<<JStr("not_a_number")>>)),
   make_request(JStr("a"), "m1", JArr(<<JInt(5)>>)),
   make_request(JInt(1), "m2", ArrParams),
   make_request(JInt(1), "initialize", JNull),
   CancelOf(JInt(1)),
   CancelOf(JStr("a")),
   make_request(JStr("a"), "$/cancelRequest", JObj([id |-> JInt(1)])),
   JObj([jsonrpc |-> JStr("2.0"), method |-> JStr("m1"), id |-> JInt(1),
         result |-> JInt(5)]),
   JObj([jsonrpc |-> JStr("2.0"), id |-> JInt(1)]),
   JObj([jsonrpc |-> JInt(2), method |-> JStr("m1"), id |-> JInt(1)]),
   JArr(<<CancelOf(JInt(1)), make_request(JInt(1), "m1", ArrParams)>>),
   JArr(<<make_request(JInt(1), "m1", ArrParams), CancelOf(JInt(1))>>),
   JArr(<<make_notification("m1", ObjParams),
          make_request(JStr("a"), "m1", JNull)>>)}

\* The requests the client of the endpoint pair sends: method and params.
PairCalls ==
  {<<"m1", ArrParams>>, <<"m1", ObjParams>>, <<"m2", ArrParams>>,
   <<"m1", JArr(<<>>)>>}

\* ------------------------------------------------------------------------
\* State
\* ------------------------------------------------------------------------
VARIABLES
  mode,         \* the program that runs: "disp", "ep" or "pair"
  d_handlers,   \* dispatcher::handlers_ of a stand-alone dispatcher
  d_last,       \* the last call on it: operation, input, result, trace
  w,            \* the endpoints A and B, the thread's tls_ctx, and the trace
                \* of the call in progress or just finished
  last,         \* the last call on an endpoint: operation, input, result
  reqs,         \* the caller's record of its send_request calls
  net,          \* net[x]: the messages x's sink holds, not yet bridged
  produced,     \* produced[n]: what the server made of request n
  cbhist,       \* every client callback invocation so far
  canc          \* what the peer of a server has done about cancellation:
                \* the id-keys it cancelled early (before any request with
                \* that key), late (after a request with that key was
                \* answered) or more than once, and those it has used so far

vars == <<mode, d_handlers, d_last, w, last, reqs, net, produced, cbhist, canc>>

dvars == <<d_handlers, d_last>>
evars == <<w, last, reqs>>
pvars == <<net, produced, cbhist>>

NoEnv == [tls_ctx |-> NoCtx, trace |-> <<>>]

Init0 ==
  /\ d_handlers = EmptyMap
  /\ d_last = [op |-> "none"]
  /\ w = [ep |-> [x \in {"A", "B"} |-> NewEndpoint],
          tls_ctx |-> NoCtx, trace |-> <<>>]
  /\ last = [op |-> "none"]
  /\ reqs = <<>>
  /\ net = [x \in {"A", "B"} |-> <<>>]
  /\ produced = EmptyMap
  /\ cbhist = <<>>
  /\ canc = [early |-> {}, late |-> {}, twice |-> {}, seen |-> {}]

\* ---- the stand-alone dispatcher ----

\* d.add(method, fn)
DAdd(method, fn) ==
  /\ d_handlers' = dispatcher_add(d_handlers, method, fn)
  /\ d_last' = [op |-> "add", method |-> method, fn |-> fn]
  /\ UNCHANGED <<mode, evars, pvars, canc>>

\* d.handle_single(msg)
DHandleSingle(msg) ==
  \E r \in {handle_single(d_handlers, NoEnv, "", msg)} :
  /\ d_last' = [op |-> "handle_single", input |-> msg, out |-> r.out,
                trace |-> r.env.trace]
  /\ UNCHANGED <<mode, d_handlers, evars, pvars, canc>>

\* d.handle(input)
DHandle(input) ==
  \E r \in {handle(d_handlers, NoEnv, input)} :
  /\ d_last' = [op |-> "handle", input |-> input, out |-> r.out,
                trace |-> r.env.trace]
  /\ UNCHANGED <<mode, d_handlers, evars, pvars, canc>>

DNext ==
  \/ \E m \in Methods, fn \in UserFns : DAdd(m, fn)
  \/ \E msg \in SingleMsgs : DHandleSingle(msg)

\* The dispatcher handed single messages and batches through handle.
DBatchNext ==
  \/ \E m \in Methods, fn \in FewFns : DAdd(m, fn)
  \/ \E in \in BatchEls \cup Batches : DHandle(in)

\* ---- one endpoint, driven through its public interface ----

\* The world as a call into the library finds it: the trace starts empty.
Fresh == [w EXCEPT !.trace = <<>>]

\* ep.add(method, fn)
EAdd(self, method, fn) ==
  /\ w' = endpoint_add(Fresh, self, method, fn)
  /\ last' = [op |-> "add", self |-> self, method |-> method, fn |-> fn]
  /\ UNCHANGED <<mode, dvars, reqs, pvars, canc>>

\* id = ep.send_request(method, params, on_result, on_error); the caller
\* notes the id it got and the message its sink saw.
ESendRequest(self, method, params) ==
  /\ Len(reqs) < MaxSends
  /\ \E r \in {send_request(Fresh, self, method, params,
                              Cb("result", Len(reqs) + 1),
                              Cb("error", Len(reqs) + 1))} :
        /\ w' = r.env
        /\ last' = [op |-> "send_request", self |-> self, ret |-> r.ret]
        /\ reqs' = Append(reqs, [id |-> r.ret, method |-> method,
                                 params |-> params])
  /\ UNCHANGED <<mode, dvars, pvars, canc>>

\* ep.receive(msg)
EReceive(self, msg) ==
  /\ \E r \in {receive(Fresh, self, msg)} :
       /\ w' = r.env
       /\ last' = [op |-> "receive", self |-> self, input |-> msg,
                   threw |-> r.threw]
  /\ UNCHANGED <<mode, dvars, reqs, pvars, canc>>

ENext ==
  \/ \E fn \in UserFns : EAdd("A", "m1", fn)
  \/ ESendRequest("A", "m1", ArrParams)
  \/ \E msg \in EpMsgs : EReceive("A", msg)

\* The endpoint handed batches.
EBatchNext ==
  \/ \E fn \in FewFns : EAdd("A", "m1", fn)
  \/ \E msg \in EpBatches : EReceive("A", msg)

\* ---- two endpoints, A the client and B the server, bridged by hand ----

\* The messages endpoint x passed to its sink during the call.
SentBy(trace, x) ==
  LET ss == SelectSeq(trace, LAMBDA e : e.ev = "send" /\ e.ep = x) IN
  [i \in 1..Len(ss) |-> ss[i].msg]

RemoveAt(q, i) == [j \in 1..(Len(q) - 1) |-> IF j < i THEN q[j] ELSE q[j + 1]]

\* What a user function makes of params, seen from outside the library.
Outcome(fn, params) == RunUser(fn, NoEnv, params).res

\* server.add(method, fn)
PAdd(method, fn) ==
  /\ w' = endpoint_add(Fresh, "B", method, fn)
  /\ last' = [op |-> "add", self |-> "B", method |-> method, fn |-> fn]
  /\ UNCHANGED <<mode, dvars, reqs, pvars, canc>>

\* client.send_request(method, params, on_result, on_error): the callbacks
\* are the caller's n-th pair, the sink keeps the message for the bridge.
PSendRequest(method, params) ==
  /\ Len(reqs) < MaxSends
  /\ \E r \in {send_request(Fresh, "A", method, params,
                              Cb("result", Len(reqs) + 1),
                              Cb("error", Len(reqs) + 1))} :
     \E out \in {SentBy(r.env.trace, "A")} :
        /\ w' = r.env
        /\ last' = [op |-> "send_request", self |-> "A", ret |-> r.ret]
        /\ reqs' = Append(reqs, [id |-> r.ret, method |-> method,
                                 params |-> params, msgs |-> out])
        /\ net' = [net EXCEPT !["A"] = @ \o out]
  /\ UNCHANGED <<mode, dvars, produced, cbhist, canc>>

\* The bridge hands one message held by from's sink, any of them, to
\* to.receive; what to emits goes to to's sink.  When the message is the
\* caller's n-th request, the bridge notes what the server's user function
\* made of it (or that none ran).
PDeliver(from, to, i) ==
  /\ i \in 1..Len(net[from])
  /\ \E m \in {net[from][i]} :
     \E r \in {receive(Fresh, to, m)} :
     \E calls \in {Calls(r.env.trace)} :
     \E ns \in {{n \in 1..Len(reqs) : from = "A" /\ reqs[n].msgs = <<m>>}} :
        /\ w' = r.env
        /\ last' = [op |-> "receive", self |-> to, input |-> m,
                    threw |-> r.threw]
        /\ net' = [x \in {"A", "B"} |->
                     (IF x = from THEN RemoveAt(net[x], i) ELSE net[x])
                     \o SentBy(r.env.trace, x)]
        /\ produced' = [n \in DOMAIN produced \cup ns |->
                          IF n \in ns
                          THEN IF Len(calls) = 1
                               THEN Outcome(calls[1].fn, calls[1].params)
                               ELSE [k |-> "nocall", n |-> Len(calls)]
                          ELSE produced[n]]
        /\ cbhist' = cbhist \o CbEvents(r.env.trace)
  /\ UNCHANGED <<mode, dvars, reqs, canc>>

PNext ==
  \/ \E fn \in FewFns : PAdd("m1", fn)
  \/ \E c \in PairCalls : PSendRequest(c[1], c[2])
  \/ \E i \in 1..MaxSends : PDeliver("A", "B", i)
  \/ \E i \in 1..MaxSends : PDeliver("B", "A", i)

\* ---- one endpoint used as a client ----

\* What the caller notes of an outbound call: the operation, the id or
\* token it concerns, and the messages its sink saw.
Noted(op, id, env) == [op |-> op, id |-> id, sent |-> SentBy(env.trace, "A")]

\* id = ep.send_request(method, params, on_result, on_error)
CSendRequest(c) ==
  /\ Len(reqs) < MaxSends
  /\ \E n \in {Len(reqs) + 1} :
     \E r \in {send_request(Fresh, "A", "m1", ArrParams,
                              MkCb("result", n, c), MkCb("error", n, c))} :
        /\ w' = r.env
        /\ last' = [op |-> "send_request", self |-> "A", ret |-> r.ret]
        /\ reqs' = Append(reqs, Noted("send_request", r.ret, r.env))
  /\ UNCHANGED <<mode, dvars, pvars, canc>>

\* ep.send_request_with_id(id, method, params, on_result, on_error)
CSendRequestWithId(id) ==
  /\ Len(reqs) < MaxSends
  /\ \E n \in {Len(reqs) + 1} :
     \E e \in {send_request_with_id(Fresh, "A", id, "m1", ArrParams,
                                      Cb("result", n), Cb("error", n))} :
        /\ w' = e
        /\ last' = [op |-> "send_request_with_id", self |-> "A", id |-> id]
        /\ reqs' = Append(reqs, Noted("send_request_with_id", id, e))
  /\ UNCHANGED <<mode, dvars, pvars, canc>>

\* id = ep.initialize(params, on_result, on_error)
CInitialize ==
  /\ Len(reqs) < MaxSends
  /\ \E n \in {Len(reqs) + 1} :
     \E r \in {initialize(Fresh, "A", JObj(NoMembers),
                            Cb("result", n), Cb("error", n))} :
        /\ w' = r.env
        /\ last' = [op |-> "initialize", self |-> "A", ret |-> r.ret]
        /\ reqs' = Append(reqs, Noted("initialize", r.ret, r.env))
  /\ UNCHANGED <<mode, dvars, pvars, canc>>

\* token = ep.create_progress_token()
CCreateProgressToken ==
  /\ Len(reqs) < MaxSends
  /\ \E r \in {create_progress_token(Fresh, "A")} :
        /\ w' = r.env
        /\ last' = [op |-> "create_progress_token", self |-> "A", ret |-> r.ret]
        /\ reqs' = Append(reqs, Noted("create_progress_token", r.ret, r.env))
  /\ UNCHANGED <<mode, dvars, pvars, canc>>

\* ep.receive(msg); the caller keeps count of the callbacks that ran.
CReceive(msg) ==
  /\ \E r \in {receive(Fresh, "A", msg)} :
        /\ w' = r.env
        /\ last' = [op |-> "receive", self |-> "A", input |-> msg,
                    threw |-> r.threw]
        /\ cbhist' = cbhist \o CbEvents(r.env.trace)
  /\ UNCHANGED <<mode, dvars, reqs, net, produced, canc>>

CNext ==
  \/ \E c \in {JNull} \cup ReMsgs : CSendRequest(c)
  \/ \E id \in OwnIds : CSendRequestWithId(id)
  \/ CInitialize
  \/ CCreateProgressToken
  \/ \E msg \in ClientMsgs : CReceive(msg)

CInit == Init0 /\ mode = "client"

SpecClient == CInit /\ [][CNext]_vars

\* ---- one endpoint used as a server, and what its peer did ----

\* The elements of an inbound message: those of a batch, or the message.
Els(msg) == IF is_array(msg) THEN msg.a ELSE <<msg>>

\* Element el of msg is taken as a request or notification (and not as a
\* response): always in a batch, and outside one unless is_response holds.
AsRequest(msg, el) == is_array(msg) \/ is_response(el) # "yes"

\* el is a well-formed "$/cancelRequest" that names an id.
NamesId(el) ==
  /\ validate_request(el).r = "true"
  /\ el.o["method"] = JStr("$/cancelRequest")
  /\ contains(el, "params")
  /\ contains(el.o["params"], "id")

\* The peer's view after it has sent element el: a cancellation names an
\* id-key early when no request with that key was sent before and late when
\* one was, twice when the key was already named; a message that carries an
\* id and does not make receive throw settles the cancellations that name
\* its key.
CancStep(c, msg, el) ==
  LET c1 == IF AsRequest(msg, el) /\ NamesId(el)
            THEN LET k == key_for_id(el.o["params"].o["id"]) IN
                 [c EXCEPT !.early = IF k \in c.seen THEN @ ELSE @ \cup {k},
                           !.late = IF k \in c.seen THEN @ \cup {k} ELSE @,
                           !.twice = IF k \in c.early \cup c.late
                                     THEN @ \cup {k} ELSE @]
            ELSE c
  IN IF AsRequest(msg, el) /\ contains(el, "id")
          /\ is_response(el) # "throw" /\ validate_request(el).r # "throw"
     THEN LET k == key_for_id(el.o["id"]) IN
          [c1 EXCEPT !.early = @ \ {k}, !.late = @ \ {k}, !.twice = @ \ {k},
                     !.seen = IF validate_request(el).r = "true"
                              THEN @ \cup {k} ELSE @]
     ELSE c1

\* The peer's view after the first n elements of msg.
RECURSIVE CancAfter(_, _, _)
CancAfter(c, msg, n) ==
  IF n = 0 THEN c ELSE CancStep(CancAfter(c, msg, n - 1), msg, Els(msg)[n])

\* ep.add("m1", fn)
SAdd(fn) ==
  /\ w' = endpoint_add(Fresh, "A", "m1", fn)
  /\ last' = [op |-> "add", self |-> "A", method |-> "m1", fn |-> fn]
  /\ UNCHANGED <<mode, dvars, reqs, pvars, canc>>

\* ep.receive(msg), msg sent by the peer.
SReceive(msg) ==
  /\ \E r \in {receive(Fresh, "A", msg)} :
        /\ w' = r.env
        /\ last' = [op |-> "receive", self |-> "A", input |-> msg,
                    threw |-> r.threw, before |-> canc]
  /\ canc' = CancAfter(canc, msg, Len(Els(msg)))
  /\ UNCHANGED <<mode, dvars, reqs, pvars>>

SNext ==
  \/ \E fn \in ServerFns : SAdd(fn)
  \/ \E msg \in ServerMsgs : SReceive(msg)

SInit == Init0 /\ mode = "server"

SpecServer == SInit /\ [][SNext]_vars

\* ---- one endpoint: "$/progress", "initialize" and the typed sends ----

\* ep.on_progress(token, cb); the caller notes what it registered.
LOnProgress(token, cb) ==
  /\ w' = on_progress(Fresh, "A", token, cb)
  /\ last' = [op |-> "on_progress", self |-> "A", token |-> token]
  /\ reqs' = [reqs EXCEPT !.progress = MapPut(@, token, cb)]
  /\ UNCHANGED <<mode, dvars, pvars, canc>>

\* ep.set_server_capabilities(caps); the caller notes what it configured.
LSetCaps(caps) ==
  /\ w' = set_server_capabilities(Fresh, "A", caps)
  /\ last' = [op |-> "set_server_capabilities", self |-> "A"]
  /\ reqs' = [reqs EXCEPT !.caps = caps]
  /\ UNCHANGED <<mode, dvars, pvars, canc>>

\* ep.receive(msg)
LReceive(msg) ==
  /\ \E r \in {receive(Fresh, "A", msg)} :
        /\ w' = r.env
        /\ last' = [op |-> "receive", self |-> "A", input |-> msg,
                    threw |-> r.threw]
  /\ UNCHANGED <<mode, dvars, reqs, pvars, canc>>

\* id = ep.send_request_typed<P, std::string>(method, x, on_result, on_error)
LSendRequestTyped(P, x) ==
  /\ w.ep["A"].id_counter < MaxSends
  /\ \E r \in {send_request_typed(Fresh, "A", "greet", P, x, "string",
                                    Cb("result", w.ep["A"].id_counter + 1),
                                    Cb("error", w.ep["A"].id_counter + 1))} :
        /\ w' = r.env
        /\ last' = [op |-> "send_request_typed", self |-> "A", P |-> P, x |-> x,
                    ret |-> r.ret]
  /\ UNCHANGED <<mode, dvars, reqs, pvars, canc>>

\* ep.send_notification_typed<P>(method, x)
LSendNotificationTyped(P, x) ==
  /\ w' = send_notification_typed(Fresh, "A", "log", P, x)
  /\ last' = [op |-> "send_notification_typed", self |-> "A", P |-> P, x |-> x]
  /\ UNCHANGED <<mode, dvars, reqs, pvars, canc>>

LNext ==
  \/ \E x \in {"World"} :
        LSendRequestTyped("string", x) \/ LSendNotificationTyped("string", x)
  \/ \E x \in {<<>>, <<5>>, <<1, 2>>} :
        LSendRequestTyped("vector_int", x) \/ LSendNotificationTyped("vector_int", x)
  \/ \E x \in {[x |-> 1, y |-> 2]} :
        LSendRequestTyped("Point", x) \/ LSendNotificationTyped("Point", x)
  \/ \E token \in {"tok-1", "t"},
        cb \in {Cb("progress", 1), Cb("progress", 2), NoCb} :
        LOnProgress(token, cb)
  \/ \E caps \in {JObj([textDocumentSync |-> JInt(1)]), JNull} : LSetCaps(caps)
  \/ \E msg \in
        {make_notification("$/progress", JObj(m)) :
           m \in {[token |-> JStr("tok-1"), value |-> JInt(50)],
                  [token |-> JStr("t"),
                   value |-> JObj([percentage |-> JInt(50)])],
                  [token |-> JStr("tok-1")],
                  [token |-> JStr(""), value |-> JInt(50)],
                  [value |-> JInt(50)],
                  [token |-> JInt(1), value |-> JInt(50)]}}
        \cup {make_request(JInt(1), "initialize", JObj(NoMembers)),
               make_request(JStr("a"), "initialize",
                            JObj([clientInfo |-> JStr("c")])),
               make_notification("initialize", JNull),
               make_request(JInt(2), "m2", JNull),
               make_result(JStr("req-1"), JStr("Hello, World!")),
               make_result(JStr("req-1"), JInt(5)),
               JArr(<<make_request(JInt(1), "initialize", JNull),
                      make_request(JStr("a"), "initialize", JNull)>>)} :
        LReceive(msg)

LInit ==
  /\ mode = "lsp"
  /\ d_handlers = EmptyMap
  /\ d_last = [op |-> "none"]
  /\ w = [ep |-> [x \in {"A", "B"} |-> NewEndpoint],
          tls_ctx |-> NoCtx, trace |-> <<>>]
  /\ last = [op |-> "none"]
  /\ reqs = [progress |-> EmptyMap, caps |-> JObj(NoMembers)]
  /\ net = [x \in {"A", "B"} |-> <<>>]
  /\ produced = EmptyMap
  /\ cbhist = <<>>
  /\ canc = [early |-> {}, late |-> {}, twice |-> {}, seen |-> {}]

SpecLsp == LInit /\ [][LNext]_vars

\* ---- the builders, applied to values of every kind ----

\* make_request(id, method, params)
BMakeRequest(id, method, params) ==
  /\ last' = [op |-> "make_request", id |-> id, method |-> method,
              params |-> params, out |-> make_request(id, method, params)]
  /\ UNCHANGED <<mode, dvars, w, reqs, pvars, canc>>

\* make_result(id, result)
BMakeResult(id, result) ==
  /\ last' = [op |-> "make_result", id |-> id, result |-> result,
              out |-> make_result(id, result)]
  /\ UNCHANGED <<mode, dvars, w, reqs, pvars, canc>>

\* make_error(id, e)
BMakeError(id, e) ==
  /\ last' = [op |-> "make_error", id |-> id, err |-> e,
              out |-> make_error(id, e)]
  /\ UNCHANGED <<mode, dvars, w, reqs, pvars, canc>>

BNext ==
  \E id \in {JNull, JStr("a"), JStr(""), JInt(1), JInt(0), JInt(-7)} :
    \/ \E method \in {"m1", "", "$/progress"},
          params \in {JArr(<<>>), JObj(NoMembers), ArrParams, ObjParams, JNull} :
          BMakeRequest(id, method, params)
    \/ \E result \in {JNull, JBool(FALSE), JInt(42), JStr("success"),
                       JArr(<<>>), ObjParams} :
          BMakeResult(id, result)
    \/ \E e \in {invalid_request, method_not_found, internal_error,
                  Err(-32000, "Custom error", JObj([info |-> JStr("test")])),
                  Err(0, "", JStr("text"))} :
          BMakeError(id, e)

BInit == Init0 /\ mode = "build"

SpecBuild == BInit /\ [][BNext]_vars

\* ---- every way the library produces a response ----
\* A dispatcher called through handle_single, a dispatcher called through
\* handle, or an endpoint used as a server.
RNext ==
  \/ mode = "handle_single" /\ DNext
  \/ mode = "handle" /\ DBatchNext
  \/ mode = "server" /\ SNext

RInit == Init0 /\ mode \in {"handle_single", "handle", "server"}

SpecResp == RInit /\ [][RNext]_vars

\* ---- one endpoint whose handlers read their context and call receive ----
XNext ==
  \/ \E fn \in {FnTask(<<"ctx", "recv_m2", "ctx">>),
                FnTask(<<"ctx", "recv_cancel", "ctx">>),
                FnTask(<<"progress", "progress">>),
                FnTask(<<"recv_m2", "progress">>),
                FnTyped("int", "void"), FnTyped("json", "json"),
                FnTyped("vector_int", "vector_int"),
                FnEcho, FnRet(JInt(7))} :
        EAdd("A", "m1", fn)
  \/ \E method \in {"m2", "initialize", "$/cancelRequest", "$/progress"} :
        EAdd("A", method, FnEcho)
  \/ \E msg \in {make_request(JInt(1), "m1", ArrParams),
                 make_request(JInt(1), "m1", JArr(<<JInt(5)>>)),
                 make_request(JInt(1), "m1", JArr(<<JArr(<<JInt(1), JInt(2)>>)>>)),
                 make_request(JStr("a"), "m1", JObj([progressToken |-> JStr("tok")])),
                 make_request(JInt(1), "m1", JObj([progressToken |-> JInt(5)])),
                 make_notification("m1", JNull),
                 make_notification("m1", JObj([progressToken |-> JStr("tok")])),
                 make_request(JInt(2), "m2", ArrParams),
                 make_request(JInt(1), "initialize", JNull),
                 make_notification("$/cancelRequest", JObj([id |-> JInt(1)])),
                 make_notification("$/progress",
                                   JObj([token |-> JStr("t"), value |-> JInt(1)]))} :
        EReceive("A", msg)

XInit == Init0 /\ mode = "ctx"

SpecCtx == XInit /\ [][XNext]_vars

\* ---- one endpoint, client and server, with ids that share keys ----
KNext ==
  \/ \E id \in {"1", "null"} : CSendRequestWithId(id)
  \/ EAdd("A", "m1", FnTask(<<"peek">>))
  \/ \E msg \in {make_result(JInt(1), JStr("success")),
                 make_result(JStr("1"), JStr("success")),
                 make_error(JNull, internal_error),
                 make_result(JStr("a"), JInt(7)),
                 CancelOf(JInt(1)), CancelOf(JStr("1")), CancelOf(JNull),
                 CancelOf(JStr("a")),
                 make_request(JInt(1), "m1", ArrParams),
                 make_request(JStr("1"), "m1", ArrParams),
                 make_request(JStr("a"), "m1", ArrParams),
                 make_notification("m1", ArrParams)} :
        EReceive("A", msg)

KInit == Init0 /\ mode = "key"

SpecKey == KInit /\ [][KNext]_vars

PInit == Init0 /\ mode = "pair"

SpecPair == PInit /\ [][PNext]_vars

DInit == Init0 /\ mode = "disp"
EInit == Init0 /\ mode = "ep"
BatchInit == Init0 /\ mode \in {"disp", "ep"}

BatchNext ==
  \/ mode = "disp" /\ DBatchNext
  \/ mode = "ep" /\ EBatchNext

SpecDisp == DInit /\ [][DNext]_vars
SpecEp == EInit /\ [][ENext]_vars
SpecBatch == BatchInit /\ [][BatchNext]_vars

\* ------------------------------------------------------------------------
\* Properties of dispatcher::handle_single
\* ------------------------------------------------------------------------
\* The last call was handle_single on a message that passes validate_request.
DValidCall ==
  /\ mode = "disp"
  /\ d_last.op = "handle_single"
  /\ validate_request(d_last.input).r = "true"

DMethod == d_last.input.o["method"].s
DHasId == contains(d_last.input, "id")
DParams ==
  IF contains(d_last.input, "params") THEN d_last.input.o["params"] ELSE JNull
DRegistered == DMethod \in DOMAIN d_handlers

\* The listed members of a response object.
IsErrorResponse(r, id, code) ==
  /\ is_object(r)
  /\ DOMAIN r.o = {"jsonrpc", "id", "error"}
  /\ r.o["jsonrpc"] = JStr("2.0")
  /\ r.o["id"] = id
  /\ is_object(r.o["error"])
  /\ "code" \in DOMAIN r.o["error"].o
  /\ r.o["error"].o["code"] = JInt(code)

\* C1: a valid request with an id whose registered handler returns v is
\* answered with exactly {jsonrpc: "2.0", id: the request's id, result: v}.
C1_SuccessResponse ==
  (DValidCall /\ DHasId /\ DRegistered
     /\ d_handlers[DMethod].kind \in {"echo", "ret"})
  => LET fn == d_handlers[DMethod]
         v == IF fn.kind = "echo" THEN DParams ELSE fn.v
     IN d_last.out = [k |-> "some",
                      r |-> JObj([jsonrpc |-> JStr("2.0"),
                                  id |-> d_last.input.o["id"],
                                  result |-> v])]

C1_Witness ==
  /\ DValidCall /\ DHasId /\ DRegistered
  /\ d_handlers[DMethod].kind = "echo"
  /\ d_last.input.o["id"] = JStr("a")
  /\ d_last.out.k = "some"
  /\ d_last.out.r.o["result"] = ArrParams

\* C2: a valid request with an id whose method is not registered is answered
\* with error code -32601 and the request's id, and no handler runs.
C2_MethodNotFound ==
  (DValidCall /\ DHasId /\ ~DRegistered)
  => /\ d_last.out.k = "some"
     /\ IsErrorResponse(d_last.out.r, d_last.input.o["id"], -32601)
     /\ d_last.trace = <<>>

C2_Witness ==
  /\ DValidCall /\ DHasId /\ ~DRegistered
  /\ d_handlers # EmptyMap
  /\ d_last.out.k = "some"
  /\ d_last.input.o["id"] = JInt(1)

\* C3: a valid notification gets no response, whether its handler is missing,
\* returns, raises an rpc_exception or raises another exception; a registered
\* handler is invoked exactly once.
C3_NotificationSilent ==
  (DValidCall /\ ~DHasId)
  => /\ d_last.out = None
     /\ d_last.trace = IF DRegistered
                       THEN <<EvCall(d_handlers[DMethod], DParams)>>
                       ELSE <<>>

C3_Witness ==
  /\ DValidCall /\ ~DHasId /\ DRegistered
  /\ d_handlers[DMethod].kind = "std"
  /\ d_last.out = None
  /\ Len(d_last.trace) = 1

\* C4: when the handler of a request with an id raises an rpc_exception with
\* error e, the response has the request's id and an error member with e's
\* code, message and data.
C4_DomainError ==
  (DValidCall /\ DHasId /\ DRegistered /\ d_handlers[DMethod].kind = "rpc")
  => LET e == d_handlers[DMethod].err
         r == d_last.out.r
     IN /\ d_last.out.k = "some"
        /\ IsErrorResponse(r, d_last.input.o["id"], e.code)
        /\ r.o["error"].o["message"] = JStr(e.message)
        /\ IF is_null(e.data)
           THEN DOMAIN r.o["error"].o = {"code", "message"}
           ELSE /\ DOMAIN r.o["error"].o = {"code", "message", "data"}
                /\ r.o["error"].o["data"] = e.data

C4_Witness ==
  /\ DValidCall /\ DHasId /\ DRegistered
  /\ d_handlers[DMethod].kind = "rpc"
  /\ ~is_null(d_handlers[DMethod].err.data)
  /\ d_last.out.k = "some"
  /\ contains(d_last.out.r.o["error"], "data")

\* C5: when the handler of a request with an id raises another exception,
\* the call returns an error response with the request's id, code -32603 and
\* data.what equal to the exception's text; the exception does not leave
\* handle_single.
C5_InternalError ==
  (DValidCall /\ DHasId /\ DRegistered /\ d_handlers[DMethod].kind = "std")
  => /\ d_last.out.k = "some"
     /\ IsErrorResponse(d_last.out.r, d_last.input.o["id"], -32603)
     /\ contains(d_last.out.r.o["error"], "data")
     /\ d_last.out.r.o["error"].o["data"]
          = JObj([what |-> JStr(d_handlers[DMethod].what)])

C5_Witness ==
  /\ DValidCall /\ DHasId /\ DRegistered
  /\ d_handlers[DMethod].kind = "std"
  /\ d_last.out.k = "some"
  /\ d_last.input.o["id"] = JNull

\* A value that fails structural request validation.
C6_Malformed(j) ==
  \/ ~is_object(j)
  \/ ~contains(j, "jsonrpc")
  \/ ~is_string(j.o["jsonrpc"])
  \/ j.o["jsonrpc"] # JStr("2.0")
  \/ ~contains(j, "method")
  \/ ~is_string(j.o["method"])
  \/ (contains(j, "id") /\ ~valid_id_type(j.o["id"]))
  \/ (contains(j, "params")
        /\ ~(is_array(j.o["params"]) \/ is_object(j.o["params"])))

\* C6: for every value that fails structural request validation,
\* handle_single returns the invalid-request error response with code -32600
\* and id null, and invokes no handler.
C6_InvalidRequest ==
  (mode = "disp" /\ d_last.op = "handle_single" /\ C6_Malformed(d_last.input))
  => /\ d_last.out.k = "some"
     /\ IsErrorResponse(d_last.out.r, JNull, -32600)
     /\ d_last.trace = <<>>

\* ------------------------------------------------------------------------
\* Properties of batches
\* ------------------------------------------------------------------------
\* A non-empty batch whose elements all pass validate_request.
WellFormedBatch(in) ==
  /\ is_array(in)
  /\ Len(in.a) > 0
  /\ \A i \in 1..Len(in.a) : validate_request(in.a[i]).r = "true"

\* The ids of the elements that carry one, in input order.
RequestIds(in) ==
  LET rs == SelectSeq(in.a, LAMBDA m : contains(m, "id")) IN
  [i \in 1..Len(rs) |-> rs[i].o["id"]]

\* out is what C7 asks of the answer to batch in: nothing when every
\* element is a notification, else an array of responses, one for each
\* request, with the requests' ids in input order.
BatchAnswer(in, out) ==
  LET ids == RequestIds(in) IN
  IF Len(ids) = 0 THEN out = None
  ELSE /\ out.k = "some"
       /\ is_array(out.r)
       /\ Len(out.r.a) = Len(ids)
       /\ \A i \in 1..Len(ids) :
            /\ is_object(out.r.a[i])
            /\ contains(out.r.a[i], "id")
            /\ out.r.a[i].o["id"] = ids[i]

\* What one receive call emitted, as an optional value: nothing, the one
\* message, or "many" when send_ was called more than once.
Emitted ==
  LET ss == Sends(w.trace) IN
  IF Len(ss) = 0 THEN None
  ELSE IF Len(ss) = 1 THEN Some(ss[1].msg)
  ELSE [k |-> "many"]

\* C7: a non-empty batch of N well-formed messages, k of them notifications,
\* is answered by dispatcher::handle, and on the wire by endpoint::receive,
\* with nothing when N = k and else with an array of N-k responses whose ids
\* are the ids of the requests in input order.
C7_BatchResponses ==
  /\ (mode = "disp" /\ d_last.op = "handle" /\ WellFormedBatch(d_last.input))
       => BatchAnswer(d_last.input, d_last.out)
  /\ (mode = "ep" /\ last.op = "receive" /\ WellFormedBatch(last.input))
       => (~last.threw /\ BatchAnswer(last.input, Emitted))

C7_Witness ==
  /\ mode = "ep" /\ last.op = "receive" /\ WellFormedBatch(last.input)
  /\ Len(last.input.a) = 2
  /\ Len(RequestIds(last.input)) = 2
  /\ last.input.a[1] # last.input.a[2]
  /\ Emitted.k = "some"
  /\ Len(Emitted.r.a) = 2

\* C8: an empty batch is answered by dispatcher::handle, and on the wire by
\* endpoint::receive, with one invalid-request error response (not an array)
\* with code -32600 and id null; no handler runs and the endpoint's tables
\* stay as they were.
C8_EmptyBatchState ==
  /\ (mode = "disp" /\ d_last.op = "handle" /\ d_last.input = JArr(<<>>))
       => /\ d_last.out.k = "some"
          /\ IsErrorResponse(d_last.out.r, JNull, -32600)
          /\ d_last.trace = <<>>
  /\ (mode = "ep" /\ last.op = "receive" /\ last.input = JArr(<<>>))
       => /\ ~last.threw
          /\ Emitted.k = "some"
          /\ IsErrorResponse(Emitted.r, JNull, -32600)
          /\ Len(w.trace) = 1

C8_EmptyBatchStep ==
  (last'.op = "receive" /\ last'.input = JArr(<<>>))
  => (w'.ep = w.ep /\ w'.tls_ctx = w.tls_ctx)

C8_EmptyBatch == []C8_EmptyBatchState /\ [][C8_EmptyBatchStep]_vars

C8_Witness ==
  /\ mode = "ep" /\ last.op = "receive" /\ last.input = JArr(<<>>)
  /\ Len(w.trace) = 1
  /\ "m1" \in DOMAIN w.ep["A"].handlers

\* ------------------------------------------------------------------------
\* Properties of the pending-call table
\* ------------------------------------------------------------------------
Pending(x) == DOMAIN x.ep["A"].pending

\* The last call was receive on a response-shaped message whose id is the
\* string k.
ResponseFor(l, k) ==
  /\ l.op = "receive"
  /\ is_object(l.input)
  /\ DOMAIN l.input.o \in {{"jsonrpc", "id", "result"}, {"jsonrpc", "id", "error"}}
  /\ l.input.o["jsonrpc"] = JStr("2.0")
  /\ l.input.o["id"] = JStr(k)

\* C9 (at the call): send_request returns the id of the one request it
\* emits, and the id is a key of the pending-call table when send_ runs and
\* when the call returns.
C9_SendState ==
  (mode = "ep" /\ last.op = "send_request")
  => /\ Len(Sends(w.trace)) = 1
     /\ LET s == Sends(w.trace)[1] IN
          /\ contains(s.msg, "method")
          /\ contains(s.msg, "id")
          /\ s.msg.o["id"] = JStr(last.ret)
          /\ last.ret \in s.pending
     /\ last.ret \in Pending(w)

\* C9 (afterwards): a key leaves the pending-call table only in a receive of
\* a response with that id, and every such receive removes it.
C9_KeepStep ==
  \A k \in Pending(w) :
    (k \notin Pending(w')) <=> ResponseFor(last', k)

C9_PendingUntilResponse == []C9_SendState /\ [][C9_KeepStep]_vars

C9_Witness ==
  /\ mode = "ep" /\ last.op = "receive"
  /\ ResponseFor(last, "req-1")
  /\ Len(reqs) = 2
  /\ Pending(w) = {"req-2"}
  /\ Len(CbEvents(w.trace)) = 1

\* ------------------------------------------------------------------------
\* Request/response correlation over the endpoint pair
\* ------------------------------------------------------------------------
\* The callback invocations that belong to the caller's n-th request.
CbsOf(n) == SelectSeq(cbhist, LAMBDA e : e.cb.tag = n)

\* The server has handled request n and its response has been bridged back.
Answered(n) ==
  /\ n \in DOMAIN produced
  /\ \A i \in 1..Len(net["B"]) :
       ~(contains(net["B"][i], "id") /\ net["B"][i].o["id"] = JStr(reqs[n].id))

\* Callback event e carries what the server made of request n.
Carries(e, p) ==
  CASE p.k = "ret" -> e.cb.on = "result" /\ e.arg = p.v
    [] p.k = "rpc" ->
         /\ e.cb.on = "error"
         /\ is_object(e.arg)
         /\ e.arg.o["code"] = JInt(p.err.code)
         /\ e.arg.o["message"] = JStr(p.err.message)
         /\ IF is_null(p.err.data) THEN ~contains(e.arg, "data")
            ELSE contains(e.arg, "data") /\ e.arg.o["data"] = p.err.data
    [] p.k = "std" ->
         /\ e.cb.on = "error"
         /\ is_object(e.arg)
         /\ e.arg.o["code"] = JInt(-32603)
    [] p.k = "nocall" ->
         /\ e.cb.on = "error"
         /\ is_object(e.arg)
         /\ e.arg.o["code"] = JInt(-32601)

\* C10: with several requests of A outstanding at B and the messages bridged
\* in any order, the callbacks of each request are invoked at most once,
\* exactly once when its response has been bridged back, and always with the
\* result or error B's handler produced for that very request.
C10_Correlation ==
  mode = "pair" =>
    \A n \in 1..Len(reqs) :
      /\ Len(CbsOf(n)) <= 1
      /\ Answered(n) <=> Len(CbsOf(n)) = 1
      /\ \A i \in 1..Len(CbsOf(n)) :
           n \in DOMAIN produced /\ Carries(CbsOf(n)[i], produced[n])

C10_Witness ==
  /\ mode = "pair"
  /\ Len(reqs) = 2
  /\ Len(cbhist) = 2
  /\ cbhist[1].cb.tag = 2
  /\ cbhist[2].cb.tag = 1
  /\ cbhist[1].cb.on = "result"
  /\ cbhist[2].cb.on = "error"
  /\ produced[1] # produced[2]

\* ------------------------------------------------------------------------
\* Properties of an endpoint used as a client
\* ------------------------------------------------------------------------
\* The callback invocations of the last call, in order.
LastCbs == CbEvents(w.trace)

\* The message whose receive made the i-th of them run: the input of the
\* call, or the message the callback before it handed back.
CauseOf(i) == IF i = 1 THEN last.input ELSE LastCbs[i - 1].cb.msg

\* C11: the callbacks of each outbound request are invoked at most once in
\* total, whatever responses arrive, duplicates and responses handed back
\* from inside a callback included; a callback runs only for a response whose
\* id-key is its request's id, on_result (with the result) when the response
\* has a result and on_error (with the error) when it has an error.
C11_AtMostOnce ==
  mode = "client" =>
    /\ \A n \in 1..Len(reqs) : Len(CbsOf(n)) <= 1
    /\ last.op = "receive" =>
         \A i \in 1..Len(LastCbs) :
           /\ i > 1 => LastCbs[i - 1].cb.kind = "re"
           /\ is_response(CauseOf(i)) = "yes"
           /\ key_for_id(CauseOf(i).o["id"]) = reqs[LastCbs[i].cb.tag].id
           /\ IF contains(CauseOf(i), "result")
              THEN /\ LastCbs[i].cb.on = "result"
                   /\ LastCbs[i].arg = CauseOf(i).o["result"]
              ELSE /\ LastCbs[i].cb.on = "error"
                   /\ LastCbs[i].arg = CauseOf(i).o["error"]

\* An error response made on_error run, which handed a second response with
\* the same id back to receive; nothing else ran.
C11_Witness ==
  /\ mode = "client" /\ last.op = "receive"
  /\ contains(last.input, "error")
  /\ Len(LastCbs) = 1
  /\ LastCbs[1].cb.kind = "re"
  /\ LastCbs[1].cb.on = "error"
  /\ LastCbs[1].cb.msg.o["id"] = last.input.o["id"]
  /\ Len(cbhist) = 1

\* The outbound calls that emit a request.
IsRequestOp(r) == r.op # "create_progress_token"

\* C12: over any sequence of send_request, send_request_with_id, initialize
\* and create_progress_token calls no two emitted requests carry the same
\* id, and every key of the pending-call table is the id of exactly one
\* outbound request.
C12_UniqueIds ==
  mode = "client" =>
    /\ \A i, j \in 1..Len(reqs) :
         (i < j /\ IsRequestOp(reqs[i]) /\ IsRequestOp(reqs[j]))
         => reqs[i].sent[1].o["id"] # reqs[j].sent[1].o["id"]
    /\ \A k \in Pending(w) :
         Cardinality({n \in 1..Len(reqs) :
                        IsRequestOp(reqs[n]) /\ reqs[n].id = k}) = 1

\* The number of calls among the first n that draw from the counter.
Issued(n) ==
  Cardinality({m \in 1..n : reqs[m].op # "send_request_with_id"})

\* C13: the k-th call that draws from the counter (send_request, initialize
\* or create_progress_token) gets the number k: a request is emitted with
\* id "req-k", which is also the id returned, a token is "tok-k", and the
\* counter holds the number of such calls so far.
C13_SharedCounter ==
  mode = "client" =>
    /\ w.ep["A"].id_counter = Issued(Len(reqs))
    /\ \A n \in 1..Len(reqs) :
         CASE reqs[n].op \in {"send_request", "initialize"} ->
                /\ reqs[n].id = "req-" \o ToString(Issued(n))
                /\ Len(reqs[n].sent) = 1
                /\ reqs[n].sent[1].o["id"] = JStr(reqs[n].id)
           [] reqs[n].op = "create_progress_token" ->
                /\ reqs[n].id = "tok-" \o ToString(Issued(n))
                /\ reqs[n].sent = <<>>
           [] OTHER -> TRUE

C13_Witness ==
  /\ mode = "client"
  /\ Len(reqs) = 2
  /\ reqs[1].op = "create_progress_token" /\ reqs[1].id = "tok-1"
  /\ reqs[2].op = "send_request" /\ reqs[2].id = "req-2"
  /\ last.op = "send_request"

\* C14: receive of a response-shaped message whose id-key is not in the
\* pending-call table invokes no callback, emits nothing, raises nothing and
\* leaves every table of the endpoint as it was.
C14_Step ==
  (/\ mode = "client"
   /\ last'.op = "receive"
   /\ is_response(last'.input) = "yes"
   /\ key_for_id(last'.input.o["id"]) \notin Pending(w))
  => /\ w'.ep = w.ep
     /\ w'.tls_ctx = w.tls_ctx
     /\ w'.trace = <<>>
     /\ ~last'.threw

C14_UnknownResponse == [][C14_Step]_vars

\* A second response for a request whose callback has already run.
C14_Witness ==
  /\ mode = "client" /\ last.op = "receive"
  /\ is_response(last.input) = "yes"
  /\ w.trace = <<>>
  /\ Len(reqs) = 2
  /\ last.input.o["id"] = JStr(reqs[1].id)
  /\ Len(CbsOf(1)) = 1
  /\ Pending(w) # {}

\* An object with jsonrpc "2.0" and an id, no method, and either both of
\* result and error or neither.
MalformedResponse(j) ==
  /\ is_object(j)
  /\ contains(j, "jsonrpc") /\ j.o["jsonrpc"] = JStr("2.0")
  /\ contains(j, "id")
  /\ ~contains(j, "method")
  /\ contains(j, "result") = contains(j, "error")

\* C15: a malformed response handed to receive is dropped: nothing is
\* emitted, no callback runs and no table changes.
C15_Step ==
  (mode = "client" /\ last'.op = "receive" /\ MalformedResponse(last'.input))
  => (w'.ep = w.ep /\ w'.trace = <<>>)

C15_MalformedDropped == [][C15_Step]_vars

\* ------------------------------------------------------------------------
\* Properties of an endpoint used as a server
\* ------------------------------------------------------------------------
SHandlers == w.ep["A"].handlers
SCancels == w.ep["A"].server_cancels

LastEls == Els(last.input)

\* The params the handler of element i is called with.
ParamsOf(i) ==
  IF contains(LastEls[i], "params") THEN LastEls[i].o["params"] ELSE JNull

\* Element i of the last input was given to a registered handler.
GivenToHandler(i) ==
  /\ AsRequest(last.input, LastEls[i])
  /\ validate_request(LastEls[i]).r = "true"
  /\ LastEls[i].o["method"].s \in DOMAIN SHandlers
  /\ SHandlers[LastEls[i].o["method"].s].kind = "wrapped"

UserFnOf(i) == SHandlers[LastEls[i].o["method"].s].fn

\* Element i of the last input was given to a user function: to the
\* registered function, or to the typed function behind it when the params
\* decode.
RunsUser(i) ==
  /\ GivenToHandler(i)
  /\ UserFnOf(i).kind = "typed"
       => ~deserialize_params(UserFnOf(i).params_t, ParamsOf(i)).threw

\* The argument the user function of element i is called with.
ArgOf(i) ==
  IF UserFnOf(i).kind = "typed"
  THEN deserialize_params(UserFnOf(i).params_t, ParamsOf(i)).v
  ELSE ParamsOf(i)

\* Element i of the last input is due a response.
Answers(i) ==
  /\ AsRequest(last.input, LastEls[i])
  /\ (validate_request(LastEls[i]).r # "true" \/ contains(LastEls[i], "id"))

\* The positions in the trace where a user function starts.
CallAt == {p \in 1..Len(w.trace) : w.trace[p].ev = "call"}

\* The events of the j-th run of a user function in the last call.
RunOf(j) ==
  LET st == CHOOSE p \in CallAt : Cardinality({q \in CallAt : q <= p}) = j
      later == {p \in CallAt : p > st}
      en == IF later = {} THEN Len(w.trace)
            ELSE (CHOOSE p \in later : \A q \in later : p <= q) - 1
  IN SubSeq(w.trace, st, en)

\* The is_canceled() results seen by the user function run for element i.
PollsOf(i) == Polls(RunOf(Cardinality({k \in 1..i : RunsUser(k)})))

\* The sends of the last call that carry responses: an object without a
\* method, or a batch array.
RespSends ==
  SelectSeq(Sends(w.trace),
            LAMBDA e : is_array(e.msg) \/ ~contains(e.msg, "method"))

\* The responses emitted by the last call, in order.
Responses ==
  IF Len(RespSends) = 0 THEN <<>>
  ELSE IF is_array(RespSends[1].msg) THEN RespSends[1].msg.a
  ELSE <<RespSends[1].msg>>

\* The response to element i.
ResponseOf(i) == Responses[Cardinality({k \in 1..i : Answers(k)})]

\* The peer's view when element i of the last input arrives.
CancBefore(i) == CancAfter(last.before, last.input, i - 1)

\* The last call was receive of one message that passes validate_request.
SValidSingle ==
  /\ mode = "server" /\ last.op = "receive"
  /\ ~is_array(last.input)
  /\ validate_request(last.input).r = "true"

\* What C16 asks of the call: one response with the message's id when it has
\* one, no response when it has none.
OneResponse ==
  IF contains(last.input, "id")
  THEN /\ ~last.threw
       /\ Len(RespSends) = 1
       /\ is_object(RespSends[1].msg)
       /\ contains(RespSends[1].msg, "id")
       /\ RespSends[1].msg.o["id"] = last.input.o["id"]
       /\ contains(RespSends[1].msg, "result") # contains(RespSends[1].msg, "error")
  ELSE /\ ~last.threw
       /\ Len(RespSends) = 0

\* C16 as stated: for every non-batch message that passes validate_request,
\* receive emits exactly one response with the message's id when it carries
\* one, whatever the handler does, and none when it carries no id.
C16_OneResponse == SValidSingle => OneResponse

\* C16 as amended: the same for every such message that is not
\* response-shaped, that is, does not have exactly one of result and error
\* beside its id.
C16_OneResponseToRequests ==
  (SValidSingle /\ is_response(last.input) # "yes") => OneResponse

C16_Witness ==
  /\ SValidSingle /\ contains(last.input, "id")
  /\ RunsUser(1) /\ UserFnOf(1).kind = "std"
  /\ Len(RespSends) = 1
  /\ IsErrorResponse(RespSends[1].msg, last.input.o["id"], -32603)

\* Element i of the last input is a request with an id given to a task.
TaskRequest(i) ==
  /\ RunsUser(i)
  /\ contains(LastEls[i], "id")
  /\ UserFnOf(i).kind = "task"

\* C17: when a "$/cancelRequest" for an id was received before the first
\* request with that id, the request is still given to its handler, the
\* handler's first is_canceled() returns true, and when the handler raises
\* request_cancelled on it the response has the request's id and code -32800.
C17_CancelBeforeRequest ==
  (mode = "server" /\ last.op = "receive") =>
    \A i \in 1..Len(LastEls) :
      (TaskRequest(i)
         /\ key_for_id(LastEls[i].o["id"]) \in CancBefore(i).early)
      => /\ Cardinality(CallAt) = Cardinality({k \in 1..Len(LastEls) : RunsUser(k)})
         /\ Len(PollsOf(i)) >= 1
         /\ PollsOf(i)[1].value = TRUE
         /\ UserFnOf(i).steps[1] = "poll"
              => IsErrorResponse(ResponseOf(i), LastEls[i].o["id"], -32800)

C17_Witness ==
  /\ mode = "server" /\ last.op = "receive"
  /\ last.input = make_request(JInt(1), "m1", ArrParams)
  /\ "1" \in last.before.early
  /\ TaskRequest(1)
  /\ UserFnOf(1).steps[1] = "poll"
  /\ PollsOf(1) = <<EvPoll(TRUE)>>
  /\ IsErrorResponse(ResponseOf(1), JInt(1), -32800)

\* C18: a "$/cancelRequest" for an id received after a request with that id
\* was answered changes nothing for later handlers: a later request that
\* uses the id again starts with is_canceled() false.
C18_CancelAfterCompletion ==
  (mode = "server" /\ last.op = "receive") =>
    \A i \in 1..Len(LastEls) :
      (TaskRequest(i)
         /\ key_for_id(LastEls[i].o["id"]) \in CancBefore(i).late)
      => /\ Len(PollsOf(i)) >= 1
         /\ PollsOf(i)[1].value = FALSE

\* The last input is one "$/cancelRequest" notification for id-key k.
CancelFor(l, k) ==
  /\ l.op = "receive"
  /\ ~is_array(l.input)
  /\ NamesId(l.input)
  /\ ~contains(l.input, "id")
  /\ key_for_id(l.input.o["params"].o["id"]) = k

\* C19 (state): a further "$/cancelRequest" for an id-key already cancelled
\* leaves the endpoint as it was, with one entry for the key, set.
C19_Step ==
  \A k \in canc.early \cup canc.late :
    (mode = "server" /\ CancelFor(last', k))
    => /\ w'.ep = w.ep
       /\ k \in DOMAIN w'.ep["A"].server_cancels
       /\ w'.ep["A"].server_cancels[k] = TRUE

\* C19 (polls): after two or more cancellations of an id, every
\* is_canceled() of the handler of the request with that id returns true.
C19_Polls ==
  (mode = "server" /\ last.op = "receive") =>
    \A i \in 1..Len(LastEls) :
      (TaskRequest(i)
         /\ key_for_id(LastEls[i].o["id"]) \in CancBefore(i).twice)
      => /\ Len(PollsOf(i)) >= 1
         /\ \A p \in 1..Len(PollsOf(i)) : PollsOf(i)[p].value = TRUE

C19_Idempotent == []C19_Polls /\ [][C19_Step]_vars

C19_Witness ==
  /\ mode = "server"
  /\ CancelFor(last, "1")
  /\ "1" \in last.before.early
  /\ "1" \in canc.twice
  /\ "1" \in DOMAIN SCancels /\ SCancels["1"] = TRUE
  /\ "m1" \in DOMAIN SHandlers

\* C20: between receive calls no handler runs, so the only requests in
\* flight are those the peer cancelled ahead of their arrival: every key of
\* the cancellation table is the id-key of such a request, and no other
\* entry outlives the call that made it.
C20_NoStaleFlags ==
  mode = "server" => DOMAIN SCancels \subseteq canc.early

\* ------------------------------------------------------------------------
\* Progress notifications of a server
\* ------------------------------------------------------------------------
IsProgressSend(e) ==
  /\ e.ev = "send" /\ is_object(e.msg)
  /\ contains(e.msg, "method") /\ e.msg.o["method"] = JStr("$/progress")

IsResponseSend(e) ==
  /\ e.ev = "send"
  /\ (is_array(e.msg) \/ ~contains(e.msg, "method"))

\* The token of the progress notifications of element i: the progressToken
\* of its params when they carry one, else its id-key.
TokenOf(i) ==
  IF is_object(ParamsOf(i)) /\ contains(ParamsOf(i), "progressToken")
     /\ is_string(ParamsOf(i).o["progressToken"])
  THEN ParamsOf(i).o["progressToken"].s
  ELSE key_for_id(IF contains(LastEls[i], "id") THEN LastEls[i].o["id"] ELSE JNull)

\* The run of the user function of element i.
RunOfEl(i) == RunOf(Cardinality({k \in 1..i : RunsUser(k)}))

\* The progress notifications the user function of element i emits: one for
\* each "progress" step it reaches, that is, each one with no earlier "poll"
\* step that saw a cancellation.
ExpectedProgress(i) ==
  IF UserFnOf(i).kind # "task" THEN <<>>
  ELSE
    LET s == UserFnOf(i).steps
        P == PollsOf(i)
        nth(q) == Cardinality({x \in 1..q : s[x] \in {"poll", "peek"}})
        stopped(p) == \E q \in 1..(p - 1) :
                        /\ s[q] = "poll"
                        /\ nth(q) <= Len(P)
                        /\ P[nth(q)].value = TRUE
        idx == SelectSeq([p \in 1..Len(s) |-> p],
                         LAMBDA p : s[p] = "progress" /\ ~stopped(p))
    IN [k \in 1..Len(idx) |->
          make_notification("$/progress",
                            JObj([token |-> JStr(TokenOf(i)),
                                  value |-> JInt(idx[k])]))]

\* The messages of the progress notifications in a run.
ProgressIn(run) ==
  LET ps == SelectSeq(run, IsProgressSend) IN [k \in 1..Len(ps) |-> ps[k].msg]

\* C21: in a receive call every "$/progress" notification a handler emits
\* through report_progress is passed to send before the response (the one
\* response object or the batch response array), and the notifications of
\* the elements of a batch appear in the order of the elements.
C21_ProgressBeforeResponse ==
  (mode = "server" /\ last.op = "receive") =>
    LET S == Sends(w.trace)
        runs == {i \in 1..Len(LastEls) : RunsUser(i)}
    IN /\ \A p, q \in 1..Len(S) :
             (IsProgressSend(S[p]) /\ IsResponseSend(S[q])) => p < q
       /\ Cardinality(CallAt) = Cardinality(runs)
       /\ \A i \in runs :
             /\ RunOfEl(i)[1] = EvCall(UserFnOf(i), ArgOf(i))
             /\ ProgressIn(RunOfEl(i)) = ExpectedProgress(i)

C21_Witness ==
  /\ mode = "server" /\ last.op = "receive"
  /\ last.input = JArr(<<make_notification("m1", ObjParams),
                         make_request(JStr("a"), "m1", JNull)>>)
  /\ RunsUser(1) /\ UserFnOf(1) = FnTask(<<"poll", "progress">>)
  /\ LET S == Sends(w.trace) IN
       /\ Len(S) = 3
       /\ S[1].msg = make_notification("$/progress",
                        JObj([token |-> JStr("null"), value |-> JInt(2)]))
       /\ S[2].msg = make_notification("$/progress",
                        JObj([token |-> JStr("a"), value |-> JInt(2)]))
       /\ S[3].msg = JArr(<<make_result(JStr("a"), JStr("done"))>>)

\* ------------------------------------------------------------------------
\* The ambient call context
\* ------------------------------------------------------------------------
\* C23: whenever no handler is executing (before any receive, and after
\* every receive call has returned, whether the handler returned or raised),
\* current_context() is absent, is_canceled() is false and report_progress
\* emits nothing.
C23_NoContextAtRest ==
  mode = "server" =>
    /\ w.tls_ctx = NoCtx
    /\ ~is_canceled(Fresh)
    /\ \A v \in {JInt(1), JNull} : report_progress(Fresh, v).trace = <<>>

C23_Witness ==
  /\ mode = "server" /\ last.op = "receive" /\ ~is_array(last.input)
  /\ RunsUser(1) /\ UserFnOf(1).kind = "std"
  /\ Len(Calls(w.trace)) = 1
  /\ w.tls_ctx = NoCtx
  /\ report_progress(Fresh, JInt(1)).trace = <<>>

\* ------------------------------------------------------------------------
\* Properties of the built-in "$/progress" and "initialize" handlers
\* ------------------------------------------------------------------------
\* The last call was receive of one "$/progress" notification whose params
\* is an object in which token is a string or missing.
ProgressNotification ==
  /\ mode = "lsp" /\ last.op = "receive"
  /\ ~is_array(last.input)
  /\ validate_request(last.input).r = "true"
  /\ last.input.o["method"] = JStr("$/progress")
  /\ ~contains(last.input, "id")
  /\ contains(last.input, "params") /\ is_object(last.input.o["params"])
  /\ contains(last.input.o["params"], "token")
        => is_string(last.input.o["params"].o["token"])

\* C22: on a "$/progress" notification with a non-empty string token the
\* endpoint invokes the callback registered through on_progress for that
\* token, once, with params.value (null when the member is missing), and no
\* other callback; when no callback is registered for the token, or the token
\* is missing or empty, nothing is invoked and nothing is emitted.
C22_ProgressRouting ==
  ProgressNotification =>
    LET p == last.input.o["params"]
        tok == IF contains(p, "token") THEN p.o["token"].s ELSE ""
        value == IF contains(p, "value") THEN p.o["value"] ELSE JNull
    IN /\ ~last.threw
       /\ IF tok # "" /\ tok \in DOMAIN reqs.progress
             /\ reqs.progress[tok] # NoCb
          THEN w.trace = <<EvCb(reqs.progress[tok], value)>>
          ELSE w.trace = <<>>

C22_Witness ==
  /\ ProgressNotification
  /\ last.input.o["params"] = JObj([token |-> JStr("t"),
                                     value |-> JObj([percentage |-> JInt(50)])])
  /\ DOMAIN reqs.progress = {"tok-1", "t"}
  /\ reqs.progress["tok-1"] = Cb("progress", 1)
  /\ reqs.progress["t"] = Cb("progress", 2)
  /\ w.trace = <<EvCb(Cb("progress", 2), JObj([percentage |-> JInt(50)]))>>

\* Element el of the last input is an "initialize" request.
InitializeRequest(el) ==
  /\ AsRequest(last.input, el)
  /\ validate_request(el).r = "true"
  /\ el.o["method"] = JStr("initialize")
  /\ contains(el, "id")

\* C24 (state): a fresh endpoint is not initialized; after receive of an
\* initialize request the endpoint is initialized and the response to the
\* request is the result {capabilities: c}, c the value last configured.
C24_State ==
  mode = "lsp" =>
    /\ last.op = "none" => ~w.ep["A"].initialized
    /\ last.op = "receive" =>
         \A i \in 1..Len(LastEls) :
           InitializeRequest(LastEls[i]) =>
             /\ w.ep["A"].initialized
             /\ ~last.threw
             /\ Len(RespSends) = 1
             /\ ResponseOf(i) = make_result(LastEls[i].o["id"],
                                  JObj([capabilities |-> reqs.caps]))

\* C24 (step): initialized never goes back to false, and only the receipt of
\* an initialize message makes it true.
C24_Step ==
  mode = "lsp" =>
    /\ w.ep["A"].initialized => w'.ep["A"].initialized
    /\ (~w.ep["A"].initialized /\ w'.ep["A"].initialized) =>
         /\ last'.op = "receive"
         /\ \E i \in 1..Len(Els(last'.input)) :
              Els(last'.input)[i].o["method"] = JStr("initialize")

\* C24: both together.
C24_Initialize == []C24_State /\ [][C24_Step]_vars

C24_Witness ==
  /\ mode = "lsp" /\ last.op = "receive"
  /\ last.input = make_request(JStr("a"), "initialize",
                                JObj([clientInfo |-> JStr("c")]))
  /\ reqs.caps = JObj([textDocumentSync |-> JInt(1)])
  /\ w.ep["A"].initialized
  /\ Len(Sends(w.trace)) = 1
  /\ Sends(w.trace)[1].msg =
       make_result(JStr("a"), JObj([capabilities |->
                                      JObj([textDocumentSync |-> JInt(1)])]))

\* ------------------------------------------------------------------------
\* Properties of the builders and of the responses the library produces
\* ------------------------------------------------------------------------
\* C25: for every valid id, method string and array-or-object params (empty
\* ones included) validate_request(make_request(id, method, params))
\* succeeds; for every valid id, value v and error e,
\* validate_response(make_result(id, v)) and
\* validate_response(make_error(id, e)) succeed.
C25_RoundTrip ==
  mode = "build" =>
    /\ (last.op = "make_request" /\ valid_id_type(last.id)
          /\ (is_array(last.params) \/ is_object(last.params)))
         => validate_request(last.out).r = "true"
    /\ (last.op \in {"make_result", "make_error"} /\ valid_id_type(last.id))
         => validate_response(last.out) = "true"

C25_Witness ==
  /\ mode = "build" /\ last.op = "make_request"
  /\ last.id = JInt(1) /\ last.params = JArr(<<>>)
  /\ ~contains(last.out, "params")
  /\ validate_request(last.out).r = "true"

\* r has jsonrpc "2.0", an id member, and exactly one of result and error.
ResponseShaped(r) ==
  /\ is_object(r)
  /\ contains(r, "jsonrpc") /\ r.o["jsonrpc"] = JStr("2.0")
  /\ contains(r, "id")
  /\ contains(r, "result") # contains(r, "error")

\* C26: every response the library produces (what handle_single and handle
\* return, each element of a batch response array, and what endpoint.receive
\* emits) has jsonrpc "2.0", an id member, and exactly one of result and
\* error.
C26_ResponseShape ==
  /\ (mode \in {"handle_single", "handle"}
        /\ d_last.op \in {"handle_single", "handle"}
        /\ d_last.out.k = "some")
       => IF d_last.op = "handle" /\ is_array(d_last.out.r)
          THEN /\ Len(d_last.out.r.a) > 0
               /\ \A i \in 1..Len(d_last.out.r.a) :
                     ResponseShaped(d_last.out.r.a[i])
          ELSE ResponseShaped(d_last.out.r)
  /\ (mode = "server" /\ last.op = "receive")
       => \A k \in 1..Len(Sends(w.trace)) :
            LET m == Sends(w.trace)[k].msg IN
            \/ IsProgressSend(Sends(w.trace)[k])
            \/ IF is_array(m)
               THEN /\ is_array(last.input)
                    /\ Len(m.a) > 0
                    /\ \A i \in 1..Len(m.a) : ResponseShaped(m.a[i])
               ELSE ResponseShaped(m)

C26_Witness ==
  /\ mode = "handle" /\ d_last.op = "handle" /\ d_last.out.k = "some"
  /\ is_array(d_last.out.r) /\ Len(d_last.out.r.a) = 2
  /\ ResponseShaped(d_last.out.r.a[1]) /\ contains(d_last.out.r.a[1], "result")
  /\ ResponseShaped(d_last.out.r.a[2]) /\ contains(d_last.out.r.a[2], "error")

\* ------------------------------------------------------------------------
\* Properties of the typed adapter
\* ------------------------------------------------------------------------
\* Element i of the last input is a request with an id for a typed handler
\* whose params do not decode.
DecodeFails(i) ==
  /\ GivenToHandler(i)
  /\ contains(LastEls[i], "id")
  /\ UserFnOf(i).kind = "typed"
  /\ deserialize_params(UserFnOf(i).params_t, ParamsOf(i)).threw

\* C27: when the params of a request with an id do not decode into the
\* parameter type of its typed handler, the response is an error with the
\* request's id, code -32602 and data.what equal to the decoder's message,
\* and the user function is not invoked.
C27_DecodeFailure ==
  (mode = "server" /\ last.op = "receive") =>
    \A i \in 1..Len(LastEls) :
      DecodeFails(i) =>
        /\ ~last.threw
        /\ Cardinality(CallAt) = Cardinality({k \in 1..Len(LastEls) : RunsUser(k)})
        /\ IsErrorResponse(ResponseOf(i), LastEls[i].o["id"], -32602)
        /\ contains(ResponseOf(i).o["error"], "data")
        /\ ResponseOf(i).o["error"].o["data"] =
             JObj([what |-> JStr(json_get(UserFnOf(i).params_t,
                                          IF is_array(ParamsOf(i))
                                             /\ Len(ParamsOf(i).a) = 1
                                          THEN ParamsOf(i).a[1]
                                          ELSE ParamsOf(i)).what)])

C27_Witness ==
  /\ mode = "server" /\ last.op = "receive"
  /\ last.input = make_request(JInt(1), "m1", JArr(<<JStr("not_a_number")>>))
  /\ DecodeFails(1)
  /\ Calls(w.trace) = <<>>
  /\ Len(Sends(w.trace)) = 1
  /\ Sends(w.trace)[1].msg =
       make_error(JInt(1),
         Err(-32602, "Invalid params",
             JObj([what |-> JStr("[json.exception.type_error.302] type must be number, but is string")])))

\* C28: for a typed outbound request or notification the params member of
\* the emitted message is the encoded value itself when that is an array or
\* an object, and otherwise the one-element array that holds it.
C28_TypedParams ==
  (mode = "lsp"
     /\ last.op \in {"send_request_typed", "send_notification_typed"}) =>
    LET j == to_json(last.P, last.x) IN
    /\ Len(Sends(w.trace)) = 1
    /\ contains(Sends(w.trace)[1].msg, "params")
    /\ Sends(w.trace)[1].msg.o["params"] =
         IF is_array(j) \/ is_object(j) THEN j ELSE JArr(<<j>>)

\* ------------------------------------------------------------------------
\* Cancellation that arrives while the handler runs
\* ------------------------------------------------------------------------
\* The positions of the steps of task fn that read is_canceled(), in order.
ReadSteps(fn) ==
  SelectSeq([p \in 1..Len(fn.steps) |-> p],
            LAMBDA p : fn.steps[p] \in {"poll", "peek"})

\* C29: when the "$/cancelRequest" for the id of a request is received while
\* the handler of that request is running, every is_canceled() the handler
\* makes afterwards returns true, and those it made before, with no earlier
\* cancellation of the id, return false.
C29_CancelDuringHandler ==
  (mode = "server" /\ last.op = "receive") =>
    \A i \in 1..Len(LastEls) :
      (TaskRequest(i) /\ \E c \in 1..Len(UserFnOf(i).steps) :
                            UserFnOf(i).steps[c] = "recv_cancel") =>
        LET fn == UserFnOf(i)
            c == CHOOSE c \in 1..Len(fn.steps) : fn.steps[c] = "recv_cancel"
            key == key_for_id(LastEls[i].o["id"])
        IN \A k \in 1..Len(PollsOf(i)) :
             /\ ReadSteps(fn)[k] > c => PollsOf(i)[k].value = TRUE
             /\ (ReadSteps(fn)[k] < c
                   /\ key \notin CancBefore(i).early \cup CancBefore(i).late)
                  => PollsOf(i)[k].value = FALSE

C29_Witness ==
  /\ mode = "server" /\ last.op = "receive"
  /\ last.input = make_request(JInt(1), "m1", ArrParams)
  /\ TaskRequest(1)
  /\ UserFnOf(1) = FnTask(<<"peek", "recv_cancel", "poll">>)
  /\ PollsOf(1) = <<EvPoll(FALSE), EvPoll(TRUE)>>
  /\ IsErrorResponse(ResponseOf(1), JInt(1), -32800)

\* ------------------------------------------------------------------------
\* The end of a cancellation flag
\* ------------------------------------------------------------------------
\* No element after position i of the last input is a "$/cancelRequest" for
\* id-key k.
NoCancelAfter(i, k) ==
  \A j \in (i + 1)..Len(LastEls) :
    ~(NamesId(LastEls[j]) /\ key_for_id(LastEls[j].o["params"].o["id"]) = k)

\* C30: when receive has handled a message that carries id X (a single
\* message or a batch element, whatever its handler did) and no
\* "$/cancelRequest" for X arrived after it, the cancellation table has no
\* entry for the id-key of X; in the single-message path the entry is still
\* there when the response is passed to send.
C30_FlagDropped ==
  (mode = "server" /\ last.op = "receive") =>
    /\ \A i \in 1..Len(LastEls) :
         (AsRequest(last.input, LastEls[i]) /\ contains(LastEls[i], "id")
            /\ NoCancelAfter(i, key_for_id(LastEls[i].o["id"])))
         => key_for_id(LastEls[i].o["id"]) \notin DOMAIN SCancels
    /\ (~is_array(last.input) /\ GivenToHandler(1) /\ contains(last.input, "id"))
         => /\ Len(RespSends) = 1
            /\ key_for_id(last.input.o["id"]) \in RespSends[1].cancels

\* ------------------------------------------------------------------------
\* The context of a running handler
\* ------------------------------------------------------------------------
\* The id of the last input, null when it has none.
LastId == IF contains(last.input, "id") THEN last.input.o["id"] ELSE JNull

\* The last call was receive of a message given to a task registered for
\* "m1".
XTask ==
  /\ mode = "ctx" /\ last.op = "receive"
  /\ GivenToHandler(1) /\ last.input.o["method"] = JStr("m1")
  /\ UserFnOf(1).kind = "task"

\* The number of steps of kind k in a task.
StepCount(fn, k) == Cardinality({p \in 1..Len(fn.steps) : fn.steps[p] = k})

\* C31: every current_context() a user handler registered with endpoint.add
\* reads while it runs is present and carries the id of the message that
\* invoked the handler (null for a notification), also after a receive call
\* the handler made has returned.
C31_ContextThroughout ==
  XTask =>
    /\ Len(Ctxs(w.trace)) = StepCount(UserFnOf(1), "ctx")
    /\ \A k \in 1..Len(Ctxs(w.trace)) :
         /\ Ctxs(w.trace)[k].some
         /\ Ctxs(w.trace)[k].id = LastId

\* The positions of the "progress" steps of a task, in order.
ProgressSteps(fn) ==
  SelectSeq([p \in 1..Len(fn.steps) |-> p], LAMBDA p : fn.steps[p] = "progress")

\* C32: each report_progress(v) call of a user handler emits one
\* "$/progress" notification with params {token: t, value: v}, t being
\* params.progressToken when the params of the request are an object with a
\* string progressToken and the id-key of the request otherwise.
C32_ProgressParams ==
  XTask =>
    ProgressIn(w.trace) =
      [k \in 1..Len(ProgressSteps(UserFnOf(1))) |->
         make_notification("$/progress",
                           JObj([token |-> JStr(TokenOf(1)),
                                 value |-> JInt(ProgressSteps(UserFnOf(1))[k])]))]

\* ------------------------------------------------------------------------
\* Batch elements that are no requests
\* ------------------------------------------------------------------------
\* The last call was receive of a non-empty batch.
CBatch ==
  /\ mode = "client" /\ last.op = "receive"
  /\ is_array(last.input) /\ Len(last.input.a) > 0

\* What C33 asks of the state after the call: the one array that was sent
\* holds, at the position of every element that fails validate_request, the
\* invalid-request error with id null, and holds the responses to the
\* requests among the other elements; no callback ran.
C33_State ==
  CBatch =>
    /\ ~last.threw
    /\ Len(Sends(w.trace)) = 1
    /\ Len(Responses) = Cardinality({i \in 1..Len(LastEls) : Answers(i)})
    /\ \A i \in 1..Len(LastEls) :
         /\ validate_request(LastEls[i]).r = "false"
              => ResponseOf(i) = make_error(JNull, invalid_request)
         /\ (validate_request(LastEls[i]).r = "true" /\ contains(LastEls[i], "id"))
              => /\ ResponseOf(i).o["id"] = LastEls[i].o["id"]
                 /\ contains(ResponseOf(i), "result")
    /\ CbEvents(w.trace) = <<>>

\* What C33 asks of the step: the pending calls stay as they were.
C33_Step ==
  (mode = "client" /\ last'.op = "receive" /\ is_array(last'.input))
    => w'.ep["A"].pending = w.ep["A"].pending

\* C33: in a non-empty batch every element that fails request validation (a
\* number, a string, a nested array, a response-shaped object) contributes
\* one invalid-request error with id null at its position in the response
\* array, resolves no pending call, and the other elements are processed.
C33_InvalidElements == []C33_State /\ [][C33_Step]_vars

C33_Witness ==
  /\ CBatch
  /\ last.input = JArr(<<JArr(<<JInt(1)>>), make_result(JStr("x"), JInt(1)),
                         make_notification("initialize", JNull)>>)
  /\ "x" \in DOMAIN w.ep["A"].pending
  /\ w.ep["A"].initialized
  /\ Responses = <<make_error(JNull, invalid_request),
                   make_error(JNull, invalid_request)>>

\* ------------------------------------------------------------------------
\* Registering a method again
\* ------------------------------------------------------------------------
\* What C34 asks of a state: registering g for a method after f leaves the
\* endpoint as registering g alone does (g = f: twice is once), and a message
\* given to a user function runs the function registered last for its method
\* first.
C34_State ==
  mode = "ctx" =>
    /\ \A m \in {"m1", "m2", "initialize", "$/cancelRequest", "$/progress"} :
       \A f, g \in {FnEcho, FnRet(JInt(7)), FnTask(<<"progress", "progress">>)} :
         endpoint_add(endpoint_add(w, "A", m, f), "A", m, g)
           = endpoint_add(w, "A", m, g)
    /\ (last.op = "receive" /\ RunsUser(1))
         => /\ Len(Calls(w.trace)) >= 1
            /\ Calls(w.trace)[1].fn = UserFnOf(1)

\* What C34 asks of a step: after add(method, fn) the method has the wrapper
\* of fn as its only handler and every other method has the handler it had.
C34_Step ==
  (mode = "ctx" /\ last'.op = "add") =>
    /\ DOMAIN w'.ep["A"].handlers = DOMAIN w.ep["A"].handlers \cup {last'.method}
    /\ \A m \in DOMAIN w'.ep["A"].handlers :
         w'.ep["A"].handlers[m] =
           IF m = last'.method THEN HWrapped(last'.fn) ELSE w.ep["A"].handlers[m]

\* C34: registering a handler for a method that has one replaces it, so that
\* only the newest handler runs for the method, registering the same handler
\* twice is registering it once, and endpoint.add does this on the built-in
\* names "initialize", "$/cancelRequest" and "$/progress" too.
C34_Replace == []C34_State /\ [][C34_Step]_vars

C34_Witness ==
  /\ mode = "ctx" /\ last.op = "receive"
  /\ last.input = make_request(JInt(1), "initialize", JNull)
  /\ SHandlers["initialize"] = HWrapped(FnEcho)
  /\ Calls(w.trace) = <<EvCall(FnEcho, JNull)>>
  /\ Responses = <<make_result(JInt(1), JNull)>>
  /\ ~w.ep["A"].initialized

\* ------------------------------------------------------------------------
\* Ids are compared by their keys
\* ------------------------------------------------------------------------
\* The normalized key of an id as the specification words it: a string is
\* its own key, any other id is its canonical text.
KeyOf(id) ==
  CASE id.t = "str" -> id.s
    [] id.t = "null" -> "null"
    [] id.t = "int" -> ToString(id.n)

\* What C35 asks of a receive step.  A response takes the pending call whose
\* id string is the key of its id, runs the callback of that call, and
\* touches no other call; a "$/cancelRequest" sets the flag under the key of
\* the id it names and no other; the handler of a request reads the flag
\* that was under the key of the request's id and no other flag changes.
C35_Step ==
  (mode = "key" /\ last'.op = "receive") =>
    LET m == last'.input
        P == w.ep["A"].pending
        F == w.ep["A"].server_cancels
        P2 == w'.ep["A"].pending
        F2 == w'.ep["A"].server_cancels
    IN /\ is_response(m) = "yes" =>
            LET k == KeyOf(m.o["id"]) IN
            /\ P2 = [x \in DOMAIN P \ {k} |-> P[x]]
            /\ F2 = F
            /\ CbEvents(w'.trace) =
                 IF k \notin DOMAIN P THEN <<>>
                 ELSE IF contains(m, "result")
                   THEN <<EvCb(P[k].ok, m.o["result"])>>
                   ELSE <<EvCb(P[k].err, m.o["error"])>>
       /\ NamesId(m) =>
            LET k == KeyOf(m.o["params"].o["id"]) IN
            /\ P2 = P
            /\ DOMAIN F2 = DOMAIN F \cup {k}
            /\ F2[k]
            /\ \A x \in DOMAIN F \ {k} : F2[x] = F[x]
       /\ (validate_request(m).r = "true" /\ m.o["method"] = JStr("m1")
             /\ "m1" \in DOMAIN w.ep["A"].handlers) =>
            LET k == KeyOf(IF contains(m, "id") THEN m.o["id"] ELSE JNull) IN
            /\ P2 = P
            /\ Polls(w'.trace) = <<EvPoll(k \in DOMAIN F /\ F[k])>>
            /\ \A x \in DOMAIN F \ {k} : x \in DOMAIN F2 /\ F2[x] = F[x]

\* C35: pending-call lookup and cancellation lookup compare ids by their
\* normalized keys: a response resolves the pending call whose id string is
\* the key of the response's id and no other, a "$/cancelRequest" reaches
\* the request whose id has the key of the id it names and no other.
C35_KeyLookup == [][C35_Step]_vars

\* The response with the number 1 as id resolved the call sent with the id
\* string "1" and left the call with the id string "null" pending, or the
\* request with id 1 saw a cancellation while the flag of the notifications
\* stayed clear.
C35_Witness ==
  /\ mode = "key" /\ last.op = "receive"
  /\ \/ /\ last.input = make_result(JInt(1), JStr("success"))
        /\ Len(CbEvents(w.trace)) = 1
        /\ reqs[CbEvents(w.trace)[1].cb.tag].id = "1"
        /\ "null" \in DOMAIN w.ep["A"].pending
     \/ /\ last.input = make_request(JInt(1), "m1", ArrParams)
        /\ Polls(w.trace) = <<EvPoll(TRUE)>>
        /\ "null" \in DOMAIN SCancels /\ ~SCancels["null"]

\* ------------------------------------------------------------------------
\* What a typed handler is called with
\* ------------------------------------------------------------------------
\* The last call was receive of a message given to the handler of a typed
\* function.
XTyped ==
  /\ mode = "ctx" /\ last.op = "receive"
  /\ GivenToHandler(1) /\ UserFnOf(1).kind = "typed"

\* The value C36 says the typed function of the last message is called
\* with (or the failure of the decoder): params itself for the raw value
\* type, else the decoding of params[0] when params is an array of exactly
\* one element and of params otherwise.
C36_Argument ==
  LET T == UserFnOf(1).params_t
      v == ParamsOf(1)
  IN IF T = "json" THEN [threw |-> FALSE, v |-> v]
     ELSE IF is_array(v) /\ Len(v.a) = 1 THEN json_get(T, v.a[1])
     ELSE json_get(T, v)

\* C36: a typed handler with a parameter type other than the raw value type
\* receives decode(v[0]) when the raw params v is an array of exactly one
\* element and decode(v) otherwise, a handler whose parameter type is the
\* raw value type receives v unchanged, and a function that returns nothing
\* is answered with result null.
C36_TypedArgument ==
  XTyped =>
    IF C36_Argument.threw THEN Calls(w.trace) = <<>>
    ELSE /\ Calls(w.trace) = <<EvCall(UserFnOf(1), C36_Argument.v)>>
         /\ contains(last.input, "id") =>
              Responses =
                <<make_result(last.input.o["id"],
                              IF UserFnOf(1).result_t = "void" THEN JNull
                              ELSE to_json(UserFnOf(1).result_t, C36_Argument.v))>>

\* add_typed<int, void> called with params [5]: the function got 5 and the
\* response carries result null.
C36_Witness ==
  /\ XTyped
  /\ UserFnOf(1) = FnTyped("int", "void")
  /\ last.input = make_request(JInt(1), "m1", JArr(<<JInt(5)>>))
  /\ Calls(w.trace) = <<EvCall(FnTyped("int", "void"), 5)>>
  /\ Responses = <<make_result(JInt(1), JNull)>>

\* ------------------------------------------------------------------------
\* Typed round trip
\* ------------------------------------------------------------------------
\* The params of the one message the last call passed to send, null when it
\* has none.
SentParams ==
  IF contains(Sends(w.trace)[1].msg, "params")
  THEN Sends(w.trace)[1].msg.o["params"] ELSE JNull

\* C37: for every value x of a domain type T, decoding on the typed server
\* side the params the typed client side produced for x gives x again, also
\* when the encoding of x is an array of one element, and so does decoding
\* in the typed response callback the result a typed handler produced for x.
C37_RoundTrip ==
  (mode = "lsp"
     /\ last.op \in {"send_request_typed", "send_notification_typed"}) =>
    /\ deserialize_params(last.P, SentParams) = [threw |-> FALSE, v |-> last.x]
    /\ deserialize_params(last.P, serialize_result(last.P, last.x))
         = [threw |-> FALSE, v |-> last.x]

\* ------------------------------------------------------------------------
\* Params from the caller to the handler
\* ------------------------------------------------------------------------
\* C38: when a request that endpoint A sent with the array or object p as
\* params (the empty array included) is bridged to endpoint B and given to a
\* user function there, the function is called with exactly p.
C38_ParamsFidelity ==
  (mode = "pair" /\ last.op = "receive" /\ last.self = "B") =>
    \A n \in 1..Len(reqs) :
      (reqs[n].msgs = <<last.input>> /\ Len(Calls(w.trace)) = 1)
        => Calls(w.trace)[1].params = reqs[n].params

\* ------------------------------------------------------------------------
\* Whose cancellation a handler sees
\* ------------------------------------------------------------------------
\* C39: is_canceled() returns true inside a user handler only if a
\* "$/cancelRequest" naming the id of the request being handled was
\* received (before the request, or while its handler runs); a handler that
\* runs for a notification never reads true, whatever was received earlier.
C39_CancellationIsolation ==
  (mode = "server" /\ last.op = "receive") =>
    \A i \in 1..Len(LastEls) :
      (RunsUser(i) /\ UserFnOf(i).kind = "task") =>
        \A k \in 1..Len(PollsOf(i)) :
          PollsOf(i)[k].value =>
            /\ contains(LastEls[i], "id")
            /\ \/ key_for_id(LastEls[i].o["id"])
                    \in CancBefore(i).early \cup CancBefore(i).late
               \/ \E c \in 1..ReadSteps(UserFnOf(i))[k] :
                    UserFnOf(i).steps[c] = "recv_cancel"

====
